---- MODULE Spec2Model ----
(***************************************************************************)
(* Personal finance manager: the SQLite store of src/database.py           *)
(* (DatabaseManager), the validators of src/utils.py and the menu          *)
(* operations of src/finance_manager.py (FinanceManager) under the menu    *)
(* loop of src/main.py.                                                    *)
(*                                                                         *)
(* Text typed by the user or stored in a TEXT column is a sequence of      *)
(* one-character strings, so that stripping, parsing, padding and the      *)
(* byte-wise comparison of SQLite's BINARY collation are computed, not     *)
(* assumed.  Amounts are integers counting cents.  A table is the set of   *)
(* its rows; sqlite_sequence holds the AUTOINCREMENT counters.             *)
(*                                                                         *)
(* op, args and ret record the last call: its name, its arguments and      *)
(* what it returned (for a menu operation, what it printed).               *)
(* pc is where main() is: at the top of its loop ("menu"), past the break  *)
(* of the exit choice ("exited"), or left by an exception ("raised").      *)
(***************************************************************************)
EXTENDS Integers, Sequences, FiniteSets, TLC

VARIABLES users, transactions, budgets, sqlite_sequence,
          current_user, current_user_id, op, args, ret, pc

vars == <<users, transactions, budgets, sqlite_sequence,
          current_user, current_user_id, op, args, ret, pc>>

session == <<current_user, current_user_id>>

---------------------------------------------------------------------------
(* Bounds of the model                                                     *)

\* largest value the users AUTOINCREMENT counter may reach
MaxUsers == 2
\* most rows (transactions and budgets together) that may be inserted
MaxRows == 2

---------------------------------------------------------------------------
(* Text                                                                    *)

\* the element of a one-element set; {e(x) : x \in {v}} computes v once
Only(S) == CHOOSE x \in S : TRUE

DigitChars == <<"0", "1", "2", "3", "4", "5", "6", "7", "8", "9">>

LowerChars == <<"a", "b", "c", "d", "e", "f", "g", "h", "i", "j", "k", "l", "m",
                "n", "o", "p", "q", "r", "s", "t", "u", "v", "w", "x", "y", "z">>

UpperChars == <<"A", "B", "C", "D", "E", "F", "G", "H", "I", "J", "K", "L", "M",
                "N", "O", "P", "Q", "R", "S", "T", "U", "V", "W", "X", "Y", "Z">>

Range(s) == {s[i] : i \in 1..Len(s)}

IndexOf(s, c) == CHOOSE i \in 1..Len(s) : s[i] = c

IsDigit(c) == c \in Range(DigitChars)

DigitVal(c) == IndexOf(DigitChars, c) - 1

\* the byte of a character (ASCII), as memcmp sees it
Ord(c) ==
    IF c \in Range(DigitChars) THEN 47 + IndexOf(DigitChars, c)
    ELSE IF c \in Range(UpperChars) THEN 64 + IndexOf(UpperChars, c)
    ELSE IF c \in Range(LowerChars) THEN 96 + IndexOf(LowerChars, c)
    ELSE IF c = " " THEN 32
    ELSE IF c = "$" THEN 36
    ELSE IF c = "+" THEN 43
    ELSE IF c = "," THEN 44
    ELSE IF c = "-" THEN 45
    ELSE IF c = "." THEN 46
    ELSE IF c = "_" THEN 95
    ELSE 63

\* SQLite's BINARY collation on TEXT: memcmp, then the shorter text first
TextLess(a, b) ==
    \E i \in 1..(Len(a) + 1) :
        /\ i <= Len(b)
        /\ \A j \in 1..(i - 1) : a[j] = b[j]
        /\ (i = Len(a) + 1 \/ Ord(a[i]) < Ord(b[i]))

AllDigits(s) == \A i \in 1..Len(s) : IsDigit(s[i])

\* the number the first n characters of a text of decimal digits denote
RECURSIVE DecimalPrefix(_, _)
DecimalPrefix(s, n) ==
    IF n = 0 THEN 0 ELSE 10 * DecimalPrefix(s, n - 1) + DigitVal(s[n])

\* the number a text of decimal digits denotes
DecimalValue(s) == Only({DecimalPrefix(t, Len(t)) : t \in {s}})

\* Python's str(n) for n >= 0
RECURSIVE str(_)
str(n) ==
    IF n < 10 THEN <<DigitChars[n + 1]>>
    ELSE str(n \div 10) \o <<DigitChars[(n % 10) + 1]>>

\* zero-padding to a width: f"{n:02d}", strftime's %m and %Y
ZeroPad(s, width) ==
    Only({[i \in 1..(width - Len(t)) |-> "0"] \o t : t \in {s}})

\* Python's None where a text is expected, and where a row is expected
None == <<"None">>

NoneRow == [none |-> TRUE]

IsSpace(c) == c = " "

\* str.strip(): the text without its leading and trailing whitespace
strip(s) ==
    Only({IF \A i \in 1..Len(t) : IsSpace(t[i]) THEN <<>>
          ELSE SubSeq(t,
                      CHOOSE i \in 1..Len(t) :
                          ~IsSpace(t[i]) /\ \A j \in 1..(i - 1) : IsSpace(t[j]),
                      CHOOSE i \in 1..Len(t) :
                          ~IsSpace(t[i]) /\ \A j \in (i + 1)..Len(t) : IsSpace(t[j]))
          : t \in {s}})

\* str.lower()
lower(s) ==
    [i \in 1..Len(s) |->
        IF s[i] \in Range(UpperChars) THEN LowerChars[IndexOf(UpperChars, s[i])]
        ELSE s[i]]

\* str.split('-'): the texts between the dashes
RECURSIVE SplitFrom(_, _)
SplitFrom(s, start) ==
    IF \A i \in start..Len(s) : s[i] # "-" THEN <<SubSeq(s, start, Len(s))>>
    ELSE Only({<<SubSeq(s, start, i - 1)>> \o SplitFrom(s, i + 1) :
               i \in {CHOOSE k \in start..Len(s) :
                         s[k] = "-" /\ \A j \in start..(k - 1) : s[j] # "-"}})

split(s) == Only({SplitFrom(t, 1) : t \in {s}})

---------------------------------------------------------------------------
(* Calendar dates                                                          *)

IsLeap(y) == (y % 4 = 0 /\ y % 100 # 0) \/ y % 400 = 0

DaysInMonth(y, m) ==
    IF m = 2 THEN (IF IsLeap(y) THEN 29 ELSE 28)
    ELSE IF m \in {4, 6, 9, 11} THEN 30
    ELSE 31

NoDate == [ok |-> FALSE, year |-> 0, month |-> 0, day |-> 0]

\* the month directive %m of strptime: 1[0-2] | 0[1-9] | [1-9]
MonthField(s) ==
    \/ Len(s) = 1 /\ IsDigit(s[1]) /\ s[1] # "0"
    \/ Len(s) = 2 /\ s[1] = "1" /\ s[2] \in {"0", "1", "2"}
    \/ Len(s) = 2 /\ s[1] = "0" /\ IsDigit(s[2]) /\ s[2] # "0"

\* the day directive %d of strptime: 3[01] | [12]\d | 0[1-9] | [1-9] | " "[1-9]
DayField(s) ==
    \/ Len(s) = 1 /\ IsDigit(s[1]) /\ s[1] # "0"
    \/ Len(s) = 2 /\ s[1] = "3" /\ s[2] \in {"0", "1"}
    \/ Len(s) = 2 /\ s[1] \in {"1", "2"} /\ IsDigit(s[2])
    \/ Len(s) = 2 /\ s[1] \in {"0", " "} /\ IsDigit(s[2]) /\ s[2] # "0"

FieldValue(s) == DecimalValue(SelectSeq(s, IsDigit))

\* the date the fields name, when the calendar has that day (year >= 1)
DateOfFields(y, m, d) ==
    IF y >= 1 /\ d <= DaysInMonth(y, m)
    THEN [ok |-> TRUE, year |-> y, month |-> m, day |-> d]
    ELSE NoDate

\* datetime.strptime(date_str, "%Y-%m-%d"): the whole text must match
\* \d\d\d\d-(month)-(day) and name a day of the calendar
strptime(date_str) ==
    Only({IF Len(s) < 8 \/ Len(s) > 10 THEN NoDate
          ELSE Only({IF /\ AllDigits(SubSeq(s, 1, 4))
                        /\ s[5] = "-"
                        /\ MonthField(SubSeq(s, 6, 5 + mlen))
                        /\ s[6 + mlen] = "-"
                        /\ DayField(SubSeq(s, 7 + mlen, Len(s)))
                     THEN DateOfFields(DecimalValue(SubSeq(s, 1, 4)),
                                       FieldValue(SubSeq(s, 6, 5 + mlen)),
                                       FieldValue(SubSeq(s, 7 + mlen, Len(s))))
                     ELSE NoDate
                     : mlen \in {IF s[7] = "-" THEN 1 ELSE 2}})
          : s \in {date_str}})

\* validate_date: a non-empty text that strptime accepts
validate_date(date_str) == date_str # <<>> /\ strptime(date_str).ok

\* a date whose day is past the end of its month, as SQLite normalises it
Normalised(y, m, d) ==
    IF d <= DaysInMonth(y, m) THEN [ok |-> TRUE, year |-> y, month |-> m, day |-> d]
    ELSE [ok |-> TRUE, year |-> IF m = 12 THEN y + 1 ELSE y,
          month |-> (m % 12) + 1, day |-> d - DaysInMonth(y, m)]

\* SQLite's reading of a stored date for strftime: exactly YYYY-MM-DD with a
\* two-digit month 01..12 and a two-digit day 01..31; a day past the end of
\* the month runs over into the next month.  Any other text of the pools
\* below is no date, and strftime yields NULL.
sqlite_date(date) ==
    Only({IF /\ Len(s) = 10
             /\ AllDigits(SubSeq(s, 1, 4))
             /\ s[5] = "-"
             /\ AllDigits(SubSeq(s, 6, 7))
             /\ s[8] = "-"
             /\ AllDigits(SubSeq(s, 9, 10))
             /\ DecimalValue(SubSeq(s, 6, 7)) \in 1..12
             /\ DecimalValue(SubSeq(s, 9, 10)) \in 1..31
          THEN Normalised(DecimalValue(SubSeq(s, 1, 4)),
                          DecimalValue(SubSeq(s, 6, 7)),
                          DecimalValue(SubSeq(s, 9, 10)))
          ELSE NoDate
          : s \in {date}})

\* strftime('%Y', date) and strftime('%m', date) of SQLite: a text, or NULL
strftime_Y(date) ==
    Only({IF d.ok THEN ZeroPad(str(d.year), 4) ELSE None : d \in {sqlite_date(date)}})

strftime_m(date) ==
    Only({IF d.ok THEN ZeroPad(str(d.month), 2) ELSE None : d \in {sqlite_date(date)}})

---------------------------------------------------------------------------
(* The store: DatabaseManager                                              *)

\* the three tables and the AUTOINCREMENT counters, as one value
DB == [users |-> users, transactions |-> transactions, budgets |-> budgets,
       sqlite_sequence |-> sqlite_sequence]

\* init_database on a fresh file: empty tables
EmptyDB == [users |-> {}, transactions |-> {}, budgets |-> {},
            sqlite_sequence |-> [users |-> 0, transactions |-> 0, budgets |-> 0]]

\* conn.commit(): the statement's effect becomes the stored state
Commit(db) ==
    /\ users' = db.users
    /\ transactions' = db.transactions
    /\ budgets' = db.budgets
    /\ sqlite_sequence' = db.sqlite_sequence

\* cursor.fetchone() over the rows a query selects: a row, or None
fetchone(rows) == IF rows = {} THEN NoneRow ELSE CHOOSE r \in rows : TRUE

\* the next rowid of an AUTOINCREMENT table
NextId(db, table) == db.sqlite_sequence[table] + 1

\* the transactions table without the CHECK on type
TypeCheck_none(trans_type) == TRUE

\* CHECK (type IN ('income', 'expense')) of the transactions table
TypeCheck(trans_type) == trans_type \in {"income", "expense"}

\* create_user with the UNIQUE constraint on username dropped
create_user_no_unique(db, username, password_hash) ==
    [db |-> [db EXCEPT
               !.users = @ \cup {[id |-> NextId(db, "users"),
                                  username |-> username,
                                  password_hash |-> password_hash]},
               !.sqlite_sequence.users = @ + 1],
     ret |-> TRUE]

\* create_user: INSERT INTO users; username is UNIQUE, a duplicate raises
\* IntegrityError and nothing is written
create_user(db, username, password_hash) ==
    IF \E u \in db.users : u.username = username
    THEN [db |-> db, ret |-> FALSE]
    ELSE [db |-> [db EXCEPT
                    !.users = @ \cup {[id |-> NextId(db, "users"),
                                       username |-> username,
                                       password_hash |-> password_hash]},
                    !.sqlite_sequence.users = @ + 1],
          ret |-> TRUE]

\* get_user: SELECT id, username, password_hash ... WHERE username = ?
get_user(db, username) ==
    fetchone({u \in db.users : u.username = username})

\* authenticate_user with the test of password_hash dropped from the WHERE
authenticate_user_any_hash(db, username, password_hash) ==
    fetchone({[id |-> u.id, username |-> u.username] :
                u \in {v \in db.users : v.username = username}})

\* authenticate_user: SELECT id, username ... WHERE username = ? AND password_hash = ?
authenticate_user(db, username, password_hash) ==
    fetchone({[id |-> u.id, username |-> u.username] :
                u \in {v \in db.users : /\ v.username = username
                                        /\ v.password_hash = password_hash}})

\* add_transaction: INSERT INTO transactions; the CHECK on type rejects the row
add_transaction(db, user_id, trans_type, amount, description, category, date) ==
    IF ~TypeCheck(trans_type)
    THEN [db |-> db, ret |-> FALSE]
    ELSE [db |-> [db EXCEPT
                    !.transactions = @ \cup {[id |-> NextId(db, "transactions"),
                                              user_id |-> user_id,
                                              type |-> trans_type,
                                              amount |-> amount,
                                              description |-> description,
                                              category |-> category,
                                              date |-> date]},
                    !.sqlite_sequence.transactions = @ + 1],
          ret |-> TRUE]

\* ORDER BY date DESC, id DESC: r comes before q
OrderedBefore(r, q) ==
    \/ TextLess(q.date, r.date)
    \/ r.date = q.date /\ r.id > q.id

\* the rows of a result set in the order of ORDER BY date DESC, id DESC
RECURSIVE OrderByDateDescIdDesc(_)
OrderByDateDescIdDesc(rows) ==
    IF rows = {} THEN <<>>
    ELSE Only({<<first>> \o OrderByDateDescIdDesc(rows \ {first}) :
               first \in {CHOOSE r \in rows :
                             \A q \in rows \ {r} : OrderedBefore(r, q)}})

\* get_user_transactions: SELECT ... WHERE user_id = ? ORDER BY date DESC, id DESC
get_user_transactions(db, user_id) ==
    OrderByDateDescIdDesc({t \in db.transactions : t.user_id = user_id})

\* get_transaction with the test of user_id dropped from the WHERE
get_transaction_any_owner(db, trans_id, user_id) ==
    fetchone({t \in db.transactions : t.id = trans_id})

\* get_transaction: SELECT ... WHERE id = ? AND user_id = ?
get_transaction(db, trans_id, user_id) ==
    fetchone({t \in db.transactions : t.id = trans_id /\ t.user_id = user_id})

\* db.update_transaction with the WHERE dropped: every row is set
db_update_transaction_no_where(db, trans_id, amount, description, category, date) ==
    [db |-> [db EXCEPT !.transactions =
               {[t EXCEPT !.amount = amount, !.description = description,
                          !.category = category, !.date = date] : t \in @}],
     ret |-> \E t \in db.transactions : t.id = trans_id]

\* db.update_transaction: UPDATE transactions SET amount, description,
\* category, date WHERE id = ?; returns cursor.rowcount > 0
db_update_transaction(db, trans_id, amount, description, category, date) ==
    [db |-> [db EXCEPT !.transactions =
               {IF t.id = trans_id
                THEN [t EXCEPT !.amount = amount, !.description = description,
                               !.category = category, !.date = date]
                ELSE t : t \in @}],
     ret |-> \E t \in db.transactions : t.id = trans_id]

\* db.delete_transaction returning True whatever the rowcount
db_delete_transaction_always_true(db, trans_id) ==
    [db |-> [db EXCEPT !.transactions = {t \in @ : t.id # trans_id}],
     ret |-> TRUE]

\* db.delete_transaction: DELETE FROM transactions WHERE id = ?; rowcount > 0
db_delete_transaction(db, trans_id) ==
    [db |-> [db EXCEPT !.transactions = {t \in @ : t.id # trans_id}],
     ret |-> \E t \in db.transactions : t.id = trans_id]

\* a + b + ... over the amounts of a set of rows: SUM(amount)
RECURSIVE SumAmount(_)
SumAmount(rows) ==
    IF rows = {} THEN 0
    ELSE Only({r.amount + SumAmount(rows \ {r}) : r \in {CHOOSE x \in rows : TRUE}})

\* set_budget as a plain INSERT onto a table without the UNIQUE constraint
set_budget_plain_insert(db, user_id, category, amount) ==
    [db |-> [db EXCEPT
               !.budgets = @ \cup {[id |-> NextId(db, "budgets"), user_id |-> user_id,
                                    category |-> category, amount |-> amount]},
               !.sqlite_sequence.budgets = @ + 1],
     ret |-> TRUE]

\* set_budget: INSERT OR REPLACE INTO budgets; the row that holds the same
\* (user_id, category) is deleted and the new row takes a fresh id
set_budget(db, user_id, category, amount) ==
    [db |-> [db EXCEPT
               !.budgets = {b \in @ : ~(b.user_id = user_id /\ b.category = category)}
                           \cup {[id |-> NextId(db, "budgets"), user_id |-> user_id,
                                  category |-> category, amount |-> amount]},
               !.sqlite_sequence.budgets = @ + 1],
     ret |-> TRUE]

\* the lists a query without ORDER BY may return: the rows in any order
RECURSIVE AnyOrder(_)
AnyOrder(rows) ==
    IF rows = {} THEN {<<>>}
    ELSE UNION {{<<r>> \o rest : rest \in AnyOrder(rows \ {r})} : r \in rows}

\* get_user_budgets: SELECT id, user_id, category, amount ... WHERE user_id = ?
\* (no ORDER BY): the lists it may return
get_user_budgets(db, user_id) ==
    AnyOrder({b \in db.budgets : b.user_id = user_id})

\* get_category_budget: SELECT amount ... WHERE user_id = ? AND category = ?;
\* the fetched row [amount], or None
get_category_budget(db, user_id, category) ==
    fetchone({[amount |-> b.amount] :
                b \in {c \in db.budgets : c.user_id = user_id /\ c.category = category}})

\* update_budget returning True whatever the rowcount
update_budget_always_true(db, budget_id, amount) ==
    [db |-> [db EXCEPT !.budgets =
               {IF b.id = budget_id THEN [b EXCEPT !.amount = amount] ELSE b : b \in @}],
     ret |-> TRUE]

\* update_budget: UPDATE budgets SET amount = ? WHERE id = ?; rowcount > 0
update_budget(db, budget_id, amount) ==
    [db |-> [db EXCEPT !.budgets =
               {IF b.id = budget_id THEN [b EXCEPT !.amount = amount] ELSE b : b \in @}],
     ret |-> \E b \in db.budgets : b.id = budget_id]

\* delete_budget: DELETE FROM budgets WHERE id = ?; rowcount > 0
delete_budget(db, budget_id) ==
    [db |-> [db EXCEPT !.budgets = {b \in @ : b.id # budget_id}],
     ret |-> \E b \in db.budgets : b.id = budget_id]

\* the SUM of get_monthly_spending for a year text and a month text
MonthlySum(db, user_id, category, year, month) ==
    SumAmount({t \in db.transactions :
                 /\ t.user_id = user_id
                 /\ t.category = category
                 /\ t.type = "expense"
                 /\ strftime_Y(t.date) = year
                 /\ strftime_m(t.date) = month})

\* get_monthly_spending: COALESCE(SUM(amount), 0) over the user's expense rows
\* of the category whose strftime year and month equal the two parts of
\* month_year; 0 when month_year does not split into a year and a number
get_monthly_spending(db, user_id, category, month_year) ==
    Only({IF Len(parts) # 2 \/ parts[2] = <<>> \/ ~AllDigits(parts[2]) THEN 0
          ELSE Only({MonthlySum(db, user_id, category, parts[1], month) :
                     month \in {ZeroPad(str(DecimalValue(parts[2])), 2)}})
          : parts \in {split(month_year)}})

\* dict.get(key, default) of a dict built from the rows of a query
dict_get(d, key, default) == IF key \in DOMAIN d THEN d[key] ELSE default

\* the user's rows whose strftime year equals the given text
RowsOfYear(db, user_id, year) ==
    {t \in db.transactions : t.user_id = user_id /\ strftime_Y(t.date) = year}

\* the user's rows whose strftime year and month equal the given texts
RowsOfMonth(db, user_id, year, month) ==
    {t \in RowsOfYear(db, user_id, year) : strftime_m(t.date) = month}

\* dict(cursor.fetchall()) of SELECT type, SUM(amount) ... GROUP BY type
SumByType(rows) ==
    [ty \in {t.type : t \in rows} |-> SumAmount({t \in rows : t.type = ty})]

\* dict(cursor.fetchall()) of SELECT category, SUM(amount) ... GROUP BY category
SumByCategory(rows) ==
    [c \in {t.category : t \in rows} |-> SumAmount({t \in rows : t.category = c})]

\* the dict get_monthly_report returns, from the rows its queries select
MonthlyReportOf(rows) ==
    Only({[total_income |-> dict_get(totals, "income", 0),
           total_expenses |-> dict_get(totals, "expense", 0),
           net_savings |-> dict_get(totals, "income", 0) - dict_get(totals, "expense", 0),
           income_by_category |-> SumByCategory({t \in rows : t.type = "income"}),
           expenses_by_category |-> SumByCategory({t \in rows : t.type = "expense"})]
          : totals \in {SumByType(rows)}})

\* get_monthly_report: totals by type and by (type, category) over the user's
\* rows whose strftime year is str(year) and strftime month is f"{month:02d}"
get_monthly_report(db, user_id, year, month) ==
    Only({MonthlyReportOf(rows) :
          rows \in {RowsOfMonth(db, user_id, str(year), ZeroPad(str(month), 2))}})

\* the dict get_yearly_report returns when an exception is caught
YearlyReportFailed ==
    [total_income |-> 0, total_expenses |-> 0, net_savings |-> 0,
     monthly_summary |-> <<>>]

\* monthly_data of get_yearly_report after its loop over the rows of SELECT
\* strftime('%m', date), type, SUM(amount) ... GROUP BY month, type: for each
\* month int(month) that has a row, the sum of the income group under
\* 'income' and the sum of the other group under 'expenses' (the CHECK on
\* type leaves one other type), 0 where the group has no row
MonthlyData(rows) ==
    [m \in {DecimalValue(strftime_m(t.date)) : t \in rows} |->
        [income |-> SumAmount({t \in rows : /\ DecimalValue(strftime_m(t.date)) = m
                                            /\ t.type = "income"}),
         expenses |-> SumAmount({t \in rows : /\ DecimalValue(strftime_m(t.date)) = m
                                              /\ t.type # "income"})]]

\* one entry of monthly_summary
SummaryEntry(month, data) ==
    [month |-> month, income |-> data.income, expenses |-> data.expenses,
     savings |-> data.income - data.expenses]

\* the calendar months range(1, 13) runs over
MonthsOfYear == 12

\* the loop "for month in range(1, 13)": one entry per month, from
\* monthly_data.get(month, {'income': 0, 'expenses': 0})
MonthlySummary(monthly_data) ==
    [month \in 1..MonthsOfYear |->
        SummaryEntry(month, dict_get(monthly_data, month, [income |-> 0, expenses |-> 0]))]

\* the dict get_yearly_report returns, from the rows of the year
YearlyReportOf(rows) ==
    Only({[total_income |-> dict_get(totals, "income", 0),
           total_expenses |-> dict_get(totals, "expense", 0),
           net_savings |-> dict_get(totals, "income", 0) - dict_get(totals, "expense", 0),
           monthly_summary |-> MonthlySummary(monthly_data)]
          : totals \in {SumByType(rows)}, monthly_data \in {MonthlyData(rows)}})

\* get_yearly_report with a monthly_summary that lists only the months that
\* have rows
get_yearly_report_no_fill(db, user_id, year) ==
    Only({Only({[r EXCEPT !.monthly_summary =
                    SelectSeq(@, LAMBDA e : e.income # 0 \/ e.expenses # 0)]
                : r \in {YearlyReportOf(rows)}})
          : rows \in {RowsOfYear(db, user_id, str(year))}})

\* get_yearly_report: totals by type over the user's rows whose strftime year
\* is str(year), and the twelve monthly entries; int(month) of a NULL month
\* raises, and the exception is caught
get_yearly_report(db, user_id, year) ==
    Only({IF \E t \in rows : strftime_m(t.date) = None THEN YearlyReportFailed
          ELSE YearlyReportOf(rows)
          : rows \in {RowsOfYear(db, user_id, str(year))}})

\* the dict get_user_backup_data makes of a transactions row
TransactionRecord(t) ==
    [type |-> t.type, amount |-> t.amount, description |-> t.description,
     category |-> t.category, date |-> t.date]

\* the dict get_user_backup_data makes of a budgets row
BudgetRecord(b) == [category |-> b.category, amount |-> b.amount]

\* the list comprehensions over cursor.fetchall(): the records of the rows,
\* in the order of the rows
TransactionRecords(rows) == [i \in 1..Len(rows) |-> TransactionRecord(rows[i])]

BudgetRecords(rows) == [i \in 1..Len(rows) |-> BudgetRecord(rows[i])]

\* datetime.now().isoformat(): the time of the backup, which no reader uses
BackupDate == "now"

\* get_user_backup_data without its SELECT on budgets
get_user_backup_data_no_budgets(db, user_id) ==
    {[backup_date |-> BackupDate,
      transactions |-> TransactionRecords(ts),
      budgets |-> <<>>]
     : ts \in AnyOrder({t \in db.transactions : t.user_id = user_id})}

\* get_user_backup_data: the user's transactions and budgets as lists of
\* records, each SELECT without ORDER BY: the documents it may return
get_user_backup_data(db, user_id) ==
    {[backup_date |-> BackupDate,
      transactions |-> TransactionRecords(ts),
      budgets |-> BudgetRecords(bs)]
     : ts \in AnyOrder({t \in db.transactions : t.user_id = user_id}),
       bs \in AnyOrder({b \in db.budgets : b.user_id = user_id})}

\* backup_data.get(key, []): a missing field reads as the empty list
get(backup_data, key) ==
    IF key \in DOMAIN backup_data THEN backup_data[key] ELSE <<>>

\* every key the INSERT reads is present in the record (else KeyError)
HasKeys(record, keys) == keys \subseteq DOMAIN record

\* the loop "for trans in backup_data.get('transactions', [])" of
\* restore_user_data: one INSERT per record; it stops at the first record
\* that lacks a key or that the CHECK on type rejects
RECURSIVE restore_transactions(_, _, _)
restore_transactions(db, user_id, records) ==
    IF records = <<>> THEN [db |-> db, ok |-> TRUE]
    ELSE IF ~HasKeys(Head(records), {"type", "amount", "description", "category", "date"})
    THEN [db |-> db, ok |-> FALSE]
    ELSE Only({IF r.ret THEN restore_transactions(r.db, user_id, Tail(records))
               ELSE [db |-> db, ok |-> FALSE]
               : r \in {add_transaction(db, user_id, Head(records).type,
                                        Head(records).amount, Head(records).description,
                                        Head(records).category, Head(records).date)}})

\* the loop "for budget in backup_data.get('budgets', [])": a plain INSERT per
\* record; it stops at the first record that lacks a key or that repeats a
\* (user_id, category) already in the table (UNIQUE)
RECURSIVE restore_budgets(_, _, _)
restore_budgets(db, user_id, records) ==
    IF records = <<>> THEN [db |-> db, ok |-> TRUE]
    ELSE IF ~HasKeys(Head(records), {"category", "amount"})
    THEN [db |-> db, ok |-> FALSE]
    ELSE IF \E b \in db.budgets :
                b.user_id = user_id /\ b.category = Head(records).category
    THEN [db |-> db, ok |-> FALSE]
    ELSE restore_budgets(
           [db EXCEPT
              !.budgets = @ \cup {[id |-> NextId(db, "budgets"),
                                   user_id |-> user_id,
                                   category |-> Head(records).category,
                                   amount |-> Head(records).amount]},
              !.sqlite_sequence.budgets = @ + 1],
           user_id, Tail(records))

\* leaving the with block by an exception without a rollback: what the
\* statements wrote so far stays
rollback_none(before, partial) == partial

\* leaving "with sqlite3.connect(...) as conn" by an exception: the connection
\* rolls the open transaction back, and the store is as before the call
rollback(before, partial) == before

\* restore_user_data without its two DELETE statements: the rows the user had
\* stay beside the ones inserted
DeleteUserData_none(db, user_id) == db

\* the two DELETE statements of restore_user_data
DeleteUserData(db, user_id) ==
    [db EXCEPT !.transactions = {t \in @ : t.user_id # user_id},
               !.budgets = {b \in @ : b.user_id # user_id}]

\* restore_user_data: in one transaction, DELETE the user's transactions and
\* budgets, then INSERT the records of the backup; commit and True, or the
\* exception is caught and False
restore_user_data(db, user_id, backup_data) ==
    Only({IF ~t.ok THEN [db |-> rollback(db, t.db), ret |-> FALSE]
          ELSE Only({IF ~b.ok THEN [db |-> rollback(db, b.db), ret |-> FALSE]
                     ELSE [db |-> b.db, ret |-> TRUE]
                     : b \in {restore_budgets(t.db, user_id,
                                              get(backup_data, "budgets"))}})
          : t \in {restore_transactions(DeleteUserData(db, user_id), user_id,
                                        get(backup_data, "transactions"))}})

---------------------------------------------------------------------------
(* Validation of typed input: utils.py                                     *)

NotCurrency(c) == c # "$" /\ c # ","

RECURSIVE Pow10(_)
Pow10(n) == IF n = 0 THEN 1 ELSE 10 * Pow10(n - 1)

NoNumber == [ok |-> FALSE, negative |-> FALSE, digits |-> 0, scale |-> 0]

\* the number digits / 10^scale that the digits before and after the point
\* denote; at least one digit must be there
Decimal(whole, frac, negative) ==
    Only({IF AllDigits(w) /\ AllDigits(f) /\ Len(w) + Len(f) > 0
          THEN [ok |-> TRUE, negative |-> negative,
                digits |-> DecimalValue(w \o f), scale |-> Len(f)]
          ELSE NoNumber
          : w \in {whole}, f \in {frac}})

\* the part of a numeral after its sign: digits with at most one point
Numeral(body, negative) ==
    Only({Only({IF points = {} THEN Decimal(b, <<>>, negative)
                ELSE IF Cardinality(points) > 1 THEN NoNumber
                ELSE Only({Decimal(SubSeq(b, 1, p - 1), SubSeq(b, p + 1, Len(b)),
                                   negative) : p \in points})
                : points \in {{i \in 1..Len(b) : b[i] = "."}}})
          : b \in {body}})

\* float(text) for a plain decimal numeral: whitespace around it ignored, an
\* optional sign, digits, and an optional point with further digits.  Every
\* other text of the input pools below raises ValueError.
float(text) ==
    Only({IF s # <<>> /\ Head(s) \in {"+", "-"}
          THEN Numeral(Tail(s), Head(s) = "-")
          ELSE Numeral(s, FALSE)
          : s \in {strip(text)}})

\* round(amount, 2) of digits / 10^scale, in cents: to the nearest cent (a
\* value midway between two cents goes to the even one)
round2(digits, scale) ==
    IF scale <= 2 THEN digits * Pow10(2 - scale)
    ELSE Only({IF 2 * (digits % unit) < unit THEN digits \div unit
               ELSE IF 2 * (digits % unit) > unit THEN (digits \div unit) + 1
               ELSE IF (digits \div unit) % 2 = 0 THEN digits \div unit
               ELSE (digits \div unit) + 1
               : unit \in {Pow10(scale - 2)}})

NoAmount == [ok |-> FALSE, amount |-> 0]

\* the largest amount validate_amount lets through
AmountLimit == 999999999

\* the tests of validate_amount on the parsed number: None for an amount <= 0
\* or > 999999999, else the amount rounded to cents
CheckedAmount(f) ==
    IF ~f.ok THEN NoAmount
    ELSE IF f.negative \/ f.digits = 0 THEN NoAmount
    ELSE IF \/ f.digits \div Pow10(f.scale) > AmountLimit
            \/ /\ f.digits \div Pow10(f.scale) = AmountLimit
               /\ f.digits % Pow10(f.scale) > 0
    THEN NoAmount
    ELSE [ok |-> TRUE, amount |-> round2(f.digits, f.scale)]

\* validate_amount: None for an empty text or a text that is no number once
\* '$' and ',' are removed and it is stripped; else the checked amount
validate_amount(amount_str) ==
    IF amount_str = <<>> THEN NoAmount
    ELSE Only({CheckedAmount(f) :
               f \in {float(strip(SelectSeq(amount_str, NotCurrency)))}})

NoInt == [ok |-> FALSE, value |-> 0]

\* int(text): an optional sign and decimal digits, whitespace around them
\* ignored; every other text of the input pools raises ValueError
int(text) ==
    Only({Only({IF body # <<>> /\ AllDigits(body)
                THEN [ok |-> TRUE,
                      value |-> IF s # body /\ Head(s) = "-"
                                THEN 0 - DecimalValue(body)
                                ELSE DecimalValue(body)]
                ELSE NoInt
                : body \in {IF s # <<>> /\ Head(s) \in {"+", "-"}
                            THEN Tail(s) ELSE s}})
          : s \in {strip(text)}})

---------------------------------------------------------------------------
(* The menu operations: FinanceManager                                     *)

income_categories == <<"Salary", "Freelance", "Investment", "Business", "Gift", "Other">>

expense_categories == <<"Food", "Rent", "Transportation", "Entertainment", "Healthcare",
                        "Shopping", "Utilities", "Education", "Travel", "Other">>

\* hashlib.sha256(password.encode()).hexdigest(): one digest per password
sha256(password) == <<"sha256">> \o password

\* date_obj.strftime("%Y-%m") of a parsed date
month_year_of(date_obj) ==
    str(date_obj.year) \o <<"-">> \o ZeroPad(str(date_obj.month), 2)

\* the branch "if new_total > budget" of _check_budget_warning: the warning
\* is printed and the answer read; any answer but y (in either case) prints
\* "Expense cancelled." and returns False
Warn(confirm_in) ==
    IF lower(confirm_in) # <<"y">>
    THEN [out |-> <<"WARNING", "Expense cancelled.">>, result |-> FALSE]
    ELSE [out |-> <<"WARNING">>, result |-> TRUE]

\* _check_budget_warning: when the category has a budget and this month's
\* spending plus the amount exceeds it, warn and ask; else True
_check_budget_warning(db, user_id, category, amount, date_str, confirm_in) ==
    Only({IF /\ budget # NoneRow
             /\ budget.amount # 0
             /\ current_spending + amount > budget.amount
          THEN Warn(confirm_in)
          ELSE [out |-> <<>>, result |-> TRUE]
          : budget \in {get_category_budget(db, user_id, category)},
            current_spending \in
                {get_monthly_spending(db, user_id, category,
                                      month_year_of(strptime(date_str)))}})

\* the end of add_expense, from "Check budget before adding expense": the
\* check runs, its result is dropped, and add_transaction is called
CheckAndAdd(db, user_id, amount, description, category, date_str, confirm_in) ==
    Only({[db |-> r.db,
           out |-> check.out \o <<IF r.ret THEN "Expense added successfully!"
                                  ELSE "Failed to add expense!">>]
          : check \in {_check_budget_warning(db, user_id, category, amount,
                                             date_str, confirm_in)},
            r \in {add_transaction(db, user_id, "expense", amount, description,
                                   category, date_str)}})

\* the date typed, or today's when nothing was typed
DateOrToday(date_in, today) ==
    Only({IF d = <<>> THEN today ELSE d : d \in {strip(date_in)}})

\* add_expense: amount, description, category number and date are read and
\* validated in turn; then the budget check runs, and the expense is added
add_expense(db, user_id, amount_str, description_in, cat_in, date_in, confirm_in, today) ==
    Only({IF ~amount.ok THEN [db |-> db, out |-> <<"Invalid amount">>]
          ELSE IF description = <<>>
          THEN [db |-> db, out |-> <<"Description cannot be empty!">>]
          ELSE IF ~cat_choice.ok
          THEN [db |-> db, out |-> <<"Please enter a valid number!">>]
          ELSE IF ~(1 <= cat_choice.value /\ cat_choice.value <= Len(expense_categories))
          THEN [db |-> db, out |-> <<"Invalid category selection!">>]
          ELSE IF ~validate_date(date_str)
          THEN [db |-> db, out |-> <<"Invalid date format!">>]
          ELSE CheckAndAdd(db, user_id, amount.amount, description,
                           expense_categories[cat_choice.value], date_str, confirm_in)
          : amount \in {validate_amount(amount_str)},
            description \in {strip(description_in)},
            cat_choice \in {int(cat_in)},
            date_str \in {DateOrToday(date_in, today)}})

\* the end of _set_budget: set_budget is called and its result printed
SetAndReport(db, user_id, category, amount) ==
    Only({[db |-> r.db,
           out |-> <<IF r.ret THEN "Budget set" ELSE "Failed to set budget!">>]
          : r \in {set_budget(db, user_id, category, amount)}})

\* _set_budget (manage_budget, choice 1): category number and amount are read
\* and validated, then the budget is set
_set_budget(db, user_id, cat_in, amount_str) ==
    Only({IF ~cat_choice.ok THEN [db |-> db, out |-> <<"Please enter a valid number!">>]
          ELSE IF ~(1 <= cat_choice.value /\ cat_choice.value <= Len(expense_categories))
          THEN [db |-> db, out |-> <<"Invalid category selection!">>]
          ELSE IF ~amount.ok THEN [db |-> db, out |-> <<"Invalid amount">>]
          ELSE SetAndReport(db, user_id, expense_categories[cat_choice.value],
                            amount.amount)
          : cat_choice \in {int(cat_in)}, amount \in {validate_amount(amount_str)}})

\* the end of register: the password is hashed and create_user called
CreateAndReport(db, username, password) ==
    Only({[db |-> r.db,
           out |-> <<IF r.ret THEN "registered successfully!"
                     ELSE "Registration failed.">>]
          : r \in {create_user(db, username, sha256(password))}})

\* register: the username is stripped and must be non-empty and new, the
\* password at least 6 characters and typed twice alike; then create_user
register(db, username_in, password, confirm_password) ==
    Only({IF username = <<>> THEN [db |-> db, out |-> <<"Username cannot be empty!">>]
          ELSE IF get_user(db, username) # NoneRow
          THEN [db |-> db, out |-> <<"Username already exists!">>]
          ELSE IF Len(password) < 6
          THEN [db |-> db, out |-> <<"Password must be at least 6 characters long!">>]
          ELSE IF password # confirm_password
          THEN [db |-> db, out |-> <<"Passwords don't match!">>]
          ELSE CreateAndReport(db, username, password)
          : username \in {strip(username_in)}})

\* login asking the store for the user of the name typed, whatever the
\* password
login_any_password(db, username_in, password) ==
    authenticate_user_any_hash(db, strip(username_in), sha256(password))

\* login: the username is stripped, the password hashed, and the store asked
\* for the user; the row it returns, or None
login(db, username_in, password) ==
    authenticate_user(db, strip(username_in), sha256(password))

---------------------------------------------------------------------------
(* Inputs                                                                  *)

\* usernames differing in a letter and in case
Usernames == {<<"a", "n", "n">>, <<"A", "n", "n">>, <<"b", "o", "b">>}

Passwords == {<<"s", "e", "c", "r", "e", "t">>, <<"h", "u", "n", "t", "e", "r", "2">>}

PasswordHashes == {sha256(p) : p \in Passwords}

\* the user ids a caller passes to the store
UserIds == {1, 2}

\* the row ids a caller passes: every id ever given out, and one never given
RowIds == 1..(MaxRows + 1)

TypeInputs == {"income", "expense", "transfer"}

\* (amount, description, category, date) of a transaction; every date is one
\* validate_date accepts
TransactionValues == {
    [amount |-> 30000, description |-> <<"f", "o", "o", "d">>, category |-> "Food",
     date |-> <<"2", "0", "2", "4", "-", "1", "0", "-", "0", "1">>],
    [amount |-> 120000, description |-> <<"r", "e", "n", "t">>, category |-> "Rent",
     date |-> <<"2", "0", "2", "4", "-", "2", "-", "0", "1">>]}

BudgetCategories == {"Food", "Rent"}

BudgetAmounts == {50000, 100000}

FoodRecord == [type |-> "expense", amount |-> 30000,
               description |-> <<"f", "o", "o", "d">>, category |-> "Food",
               date |-> <<"2", "0", "2", "4", "-", "1", "0", "-", "0", "1">>]

\* backup documents handed to restore_user_data: well-formed ones, one whose
\* fields are missing, and ones the store rejects at a later record (an
\* unknown type, a record without its date, a category given twice)
Backups == {
    [backup_date |-> "d"],
    [backup_date |-> "d", transactions |-> <<FoodRecord>>],
    [backup_date |-> "d", transactions |-> <<FoodRecord>>,
     budgets |-> <<[category |-> "Food", amount |-> 50000]>>],
    [backup_date |-> "d",
     transactions |-> <<FoodRecord, [FoodRecord EXCEPT !.type = "transfer"]>>,
     budgets |-> <<>>],
    [backup_date |-> "d",
     transactions |-> <<[type |-> "income", amount |-> 30000,
                         description |-> <<"p", "a", "y">>, category |-> "Salary"]>>,
     budgets |-> <<>>],
    [backup_date |-> "d", transactions |-> <<>>,
     budgets |-> <<[category |-> "Food", amount |-> 50000],
                   [category |-> "Food", amount |-> 100000]>>]}

\* what the user types at the prompts
UsernameInputs == {<<"a", "n", "n">>, <<" ", "b", "o", "b">>, <<>>}

PasswordInputs == {<<"s", "e", "c", "r", "e", "t">>, <<"a", "b", "c">>}

AmountInputs == {<<"3", "0", "0">>,
                 <<"$", "1", ",", "2", "0", "0", ".", "0", "0">>,
                 <<"a", "b", "c">>}

DescriptionInputs == {<<"f", "o", "o", "d">>, <<" ">>}

CategoryInputs == {<<"1">>, <<"x">>, <<"1", "1">>}

DateInputs == {<<"2", "0", "2", "4", "-", "1", "0", "-", "0", "1">>,
               <<"2", "0", "2", "4", "-", "2", "-", "0", "1">>,
               <<"2", "0", "2", "4", "-", "1", "3", "-", "0", "1">>,
               <<>>}

ConfirmInputs == {<<"Y">>, <<"n">>, <<>>}

BudgetCategoryInputs == {<<"1">>, <<"x">>}

BudgetAmountInputs == {<<"5", "0", "0">>, <<"0">>}

\* datetime.now().strftime("%Y-%m-%d"): the days the clock may show
Todays == {<<"2", "0", "2", "4", "-", "1", "0", "-", "0", "1">>}

---------------------------------------------------------------------------
(* Initial state: a fresh database file, nobody logged in                  *)

\* current_user_id = None
NoUserId == 0

Init ==
    /\ users = EmptyDB.users
    /\ transactions = EmptyDB.transactions
    /\ budgets = EmptyDB.budgets
    /\ sqlite_sequence = EmptyDB.sqlite_sequence
    /\ current_user = None
    /\ current_user_id = NoUserId
    /\ op = "init"
    /\ args = [none |-> TRUE]
    /\ ret = NoneRow
    /\ pc = "menu"

\* a call of a store method: its effect is committed, its result recorded
Call(name, arguments, r) ==
    /\ Commit(r.db)
    /\ op' = name
    /\ args' = arguments
    /\ ret' = r.ret
    /\ UNCHANGED <<session, pc>>

\* a read of the store: nothing is written, its result recorded
Read(name, arguments, result) ==
    /\ op' = name
    /\ args' = arguments
    /\ ret' = result
    /\ UNCHANGED <<users, transactions, budgets, sqlite_sequence, session, pc>>

---------------------------------------------------------------------------
(* Calls of the store's user methods                                       *)

CreateUser ==
    \E username \in Usernames, password_hash \in PasswordHashes :
    \E r \in {create_user(DB, username, password_hash)} :
        /\ r.db.sqlite_sequence.users <= MaxUsers
        /\ Call("create_user",
                [username |-> username, password_hash |-> password_hash], r)

GetUser ==
    \E username \in Usernames :
        Read("get_user", [username |-> username], get_user(DB, username))

AuthenticateUser ==
    \E username \in Usernames, password_hash \in PasswordHashes :
        Read("authenticate_user",
             [username |-> username, password_hash |-> password_hash],
             authenticate_user(DB, username, password_hash))

NextUsers == CreateUser \/ GetUser \/ AuthenticateUser

SpecUsers == Init /\ [][NextUsers]_vars

---------------------------------------------------------------------------
(* Calls of the store's transaction, budget and restore methods            *)

\* the rows inserted so far, over both tables
RowsInserted(db) == db.sqlite_sequence.transactions + db.sqlite_sequence.budgets

AddTransaction ==
    \E user_id \in UserIds, trans_type \in TypeInputs, v \in TransactionValues :
    \E r \in {add_transaction(DB, user_id, trans_type, v.amount, v.description,
                              v.category, v.date)} :
        /\ RowsInserted(r.db) <= MaxRows
        /\ Call("add_transaction",
                [user_id |-> user_id, trans_type |-> trans_type, values |-> v], r)

GetUserTransactions ==
    \E user_id \in UserIds :
        Read("get_user_transactions", [user_id |-> user_id],
             get_user_transactions(DB, user_id))

GetTransaction ==
    \E trans_id \in RowIds, user_id \in UserIds :
        Read("get_transaction", [trans_id |-> trans_id, user_id |-> user_id],
             get_transaction(DB, trans_id, user_id))

UpdateTransaction ==
    \E trans_id \in RowIds, v \in TransactionValues :
    \E r \in {db_update_transaction(DB, trans_id, v.amount, v.description,
                                    v.category, v.date)} :
        Call("update_transaction", [trans_id |-> trans_id, values |-> v], r)

DeleteTransaction ==
    \E trans_id \in RowIds :
    \E r \in {db_delete_transaction(DB, trans_id)} :
        Call("delete_transaction", [trans_id |-> trans_id], r)

SetBudget ==
    \E user_id \in UserIds, category \in BudgetCategories, amount \in BudgetAmounts :
    \E r \in {set_budget(DB, user_id, category, amount)} :
        /\ RowsInserted(r.db) <= MaxRows
        /\ Call("set_budget",
                [user_id |-> user_id, category |-> category, amount |-> amount], r)

GetUserBudgets ==
    \E user_id \in UserIds :
    \E result \in get_user_budgets(DB, user_id) :
        Read("get_user_budgets", [user_id |-> user_id], result)

UpdateBudget ==
    \E budget_id \in RowIds, amount \in BudgetAmounts :
    \E r \in {update_budget(DB, budget_id, amount)} :
        Call("update_budget", [budget_id |-> budget_id, amount |-> amount], r)

DeleteBudget ==
    \E budget_id \in RowIds :
    \E r \in {delete_budget(DB, budget_id)} :
        Call("delete_budget", [budget_id |-> budget_id], r)

RestoreUserData ==
    \E user_id \in UserIds, backup_data \in Backups :
    \E r \in {restore_user_data(DB, user_id, backup_data)} :
        /\ RowsInserted(r.db) <= MaxRows
        /\ Call("restore_user_data",
                [user_id |-> user_id, backup_data |-> backup_data], r)

NextStore ==
    \/ AddTransaction
    \/ GetUserTransactions
    \/ GetTransaction
    \/ UpdateTransaction
    \/ DeleteTransaction
    \/ SetBudget
    \/ GetUserBudgets
    \/ UpdateBudget
    \/ DeleteBudget
    \/ RestoreUserData

SpecStore == Init /\ [][NextStore]_vars

---------------------------------------------------------------------------
(* Calls of the store's report methods, over stores that add_transaction   *)
(* has written                                                             *)

\* (type, amount, description, category, date) of a transaction: two
\* expenses of October 2024 and an income of the category and amount of one
\* of them, an expense of February 2024 dated without padding, and an
\* expense of October 2023; every date is one validate_date accepts
DatedValues == {
    [type |-> "expense", amount |-> 30000, description |-> <<"f", "o", "o", "d">>,
     category |-> "Food",
     date |-> <<"2", "0", "2", "4", "-", "1", "0", "-", "0", "1">>],
    [type |-> "expense", amount |-> 4550, description |-> <<"b", "u", "s">>,
     category |-> "Travel",
     date |-> <<"2", "0", "2", "4", "-", "1", "0", "-", "1", "5">>],
    [type |-> "income", amount |-> 30000, description |-> <<"p", "a", "y">>,
     category |-> "Food",
     date |-> <<"2", "0", "2", "4", "-", "1", "0", "-", "0", "1">>],
    [type |-> "expense", amount |-> 120000, description |-> <<"r", "e", "n", "t">>,
     category |-> "Food",
     date |-> <<"2", "0", "2", "4", "-", "2", "-", "0", "1">>],
    [type |-> "expense", amount |-> 50000, description |-> <<"o", "l", "d">>,
     category |-> "Food",
     date |-> <<"2", "0", "2", "3", "-", "1", "0", "-", "0", "5">>]}

\* the years and months a caller asks reports for
Years == {2023, 2024}

Months == {2, 10}

AddDated ==
    \E user_id \in UserIds, v \in DatedValues :
    \E r \in {add_transaction(DB, user_id, v.type, v.amount, v.description,
                              v.category, v.date)} :
        /\ RowsInserted(r.db) <= MaxRows
        /\ Call("add_transaction",
                [user_id |-> user_id, trans_type |-> v.type, values |-> v], r)

GetMonthlyReport ==
    \E user_id \in UserIds, year \in Years, month \in Months :
        Read("get_monthly_report", [user_id |-> user_id, year |-> year, month |-> month],
             get_monthly_report(DB, user_id, year, month))

GetYearlyReport ==
    \E user_id \in UserIds, year \in Years :
        Read("get_yearly_report", [user_id |-> user_id, year |-> year],
             get_yearly_report(DB, user_id, year))

\* the year-months a caller asks the spending of: October and February 2024,
\* the latter with and without padding
MonthYears == {<<"2", "0", "2", "4", "-", "1", "0">>,
               <<"2", "0", "2", "4", "-", "0", "2">>,
               <<"2", "0", "2", "4", "-", "2">>}

SpendingCategories == {"Food", "Travel"}

GetMonthlySpending ==
    \E user_id \in UserIds, category \in SpendingCategories, month_year \in MonthYears :
        Read("get_monthly_spending",
             [user_id |-> user_id, category |-> category, month_year |-> month_year],
             get_monthly_spending(DB, user_id, category, month_year))

NextReports ==
    \/ AddDated
    \/ GetMonthlyReport
    \/ GetYearlyReport
    \/ GetMonthlySpending

SpecReports == Init /\ [][NextReports]_vars

---------------------------------------------------------------------------
(* Backup and restore through the store: get_user_backup_data, and         *)
(* restore_user_data of the document it returned                           *)

GetUserBackupData ==
    \E user_id \in UserIds :
    \E backup_data \in get_user_backup_data(DB, user_id) :
        Read("get_user_backup_data", [user_id |-> user_id], backup_data)

\* restore_user_data(u, data) where data is what get_user_backup_data(u) has
\* just returned; the rows it re-inserts take fresh ids
RestoreBackup ==
    /\ op = "get_user_backup_data"
    /\ \E r \in {restore_user_data(DB, args.user_id, ret)} :
          /\ RowsInserted(r.db) <= 2 * MaxRows
          /\ Call("restore_user_data",
                  [user_id |-> args.user_id, backup_data |-> ret], r)

NextBackup ==
    \/ AddTransaction
    \/ SetBudget
    \/ GetUserBackupData
    \/ RestoreBackup

SpecBackup == Init /\ [][NextBackup]_vars

---------------------------------------------------------------------------
(* Calls of the validators of utils.py                                     *)

\* longest text of the amount alphabet handed to validate_amount
MaxAmountLen == 3

\* characters of amounts: two digits, the point, the currency symbol, the
\* thousands separator, the minus sign and the blank
AmountChars == {"0", "1", ".", "$", ",", "-", " "}

\* the texts handed to validate_amount: every text over the alphabet up to
\* the length bound, and longer ones: fractions of a cent, three decimals,
\* a formatted amount, the first whole amount over the limit, and letters
AmountTexts ==
    UNION {[1..n -> AmountChars] : n \in 0..MaxAmountLen}
    \cup {<<"0", ".", "0", "0", "1">>,
          <<"0", ".", "0", "0", "4">>,
          <<"0", ".", "0", "0", "6">>,
          <<"1", "2", ".", "3", "4", "4">>,
          <<"1", "2", ".", "3", "4", "6">>,
          <<"$", "1", ",", "2", "0", "0", ".", "0", "0">>,
          <<"1", "0", "0", "0", "0", "0", "0", "0", "0", "0">>,
          <<"a", "b", "c">>}

ValidateAmount ==
    \E amount_str \in AmountTexts :
        Read("validate_amount", [amount_str |-> amount_str],
             validate_amount(amount_str))

\* the parts of the dates handed to validate_date: years of four and of two
\* digits; months with and without padding, and none of the calendar; days
\* with and without padding, with a blank, past the end of a month, and none
YearParts == {<<"2", "0", "2", "4">>, <<"2", "0", "2", "3">>, <<"2", "4">>}

MonthParts == {<<"1">>, <<"0", "1">>, <<"2">>, <<"0", "2">>, <<"1", "2">>,
               <<"1", "3">>, <<"0", "0">>}

DayParts == {<<"1">>, <<"0", "1">>, <<"2", "9">>, <<"3", "0">>, <<"3", "1">>,
             <<"3", "2">>, <<"0", "0">>, <<" ", "1">>}

\* the texts handed to validate_date: year-month-day of the parts, and texts
\* of other forms: nothing, day-month-year, slashes, no dashes, blanks
\* around, a year and month only
DateTexts ==
    {y \o <<"-">> \o m \o <<"-">> \o d : y \in YearParts, m \in MonthParts, d \in DayParts}
    \cup {<<>>,
          <<"0", "1", "-", "0", "1", "-", "2", "0", "2", "4">>,
          <<"2", "0", "2", "4", "/", "0", "1", "/", "0", "1">>,
          <<"2", "0", "2", "4", "0", "1", "0", "1">>,
          <<" ", "2", "0", "2", "4", "-", "0", "1", "-", "0", "1">>,
          <<"2", "0", "2", "4", "-", "0", "1", "-", "0", "1", " ">>,
          <<"2", "0", "2", "4", "-", "0", "1">>}

ValidateDate ==
    \E date_str \in DateTexts :
        Read("validate_date", [date_str |-> date_str], validate_date(date_str))

NextValidate ==
    \/ ValidateAmount
    \/ ValidateDate

SpecValidate == Init /\ [][NextValidate]_vars

---------------------------------------------------------------------------
(* The menu loop of main(): one action per menu choice                     *)

LoggedIn == current_user # None /\ current_user # <<>>

\* a menu operation has run: the store it left, and what it printed
Handled(name, db, out) ==
    /\ Commit(db)
    /\ op' = name
    /\ args' = [none |-> TRUE]
    /\ ret' = out
    /\ UNCHANGED pc

\* the texts a prompt may yield: what the user types when the prompt is
\* reached, nothing when the operation has returned before it
Prompt(reached, inputs) == IF reached THEN inputs ELSE {<<>>}

MenuRegister ==
    /\ ~LoggedIn
    /\ \E username_in \in UsernameInputs :
       \E username \in {strip(username_in)} :
       \E password \in Prompt(username # <<>> /\ get_user(DB, username) = NoneRow,
                              PasswordInputs) :
       \E confirm_password \in Prompt(Len(password) >= 6, PasswordInputs) :
       \E r \in {register(DB, username_in, password, confirm_password)} :
          /\ r.db.sqlite_sequence.users <= MaxUsers
          /\ Handled("register", r.db, r.out)
          /\ UNCHANGED session

MenuLogin ==
    /\ ~LoggedIn
    /\ \E username_in \in UsernameInputs, password \in PasswordInputs :
       \E user \in {login(DB, username_in, password)} :
          IF user # NoneRow
          THEN /\ Handled("login", DB, <<"Welcome back">>)
               /\ current_user' = strip(username_in)
               /\ current_user_id' = user.id
          ELSE /\ Handled("login", DB, <<"Invalid username or password!">>)
               /\ UNCHANGED session

MenuLogout ==
    /\ LoggedIn
    /\ Handled("logout", DB, <<"Logged out successfully!">>)
    /\ current_user' = None
    /\ current_user_id' = NoUserId

MenuAddExpense ==
    /\ LoggedIn
    /\ \E today \in Todays, amount_str \in AmountInputs :
       \E description_in \in Prompt(validate_amount(amount_str).ok, DescriptionInputs) :
       \E cat_in \in Prompt(strip(description_in) # <<>>, CategoryInputs) :
       \E cat_choice \in {int(cat_in)} :
       \E date_in \in Prompt(/\ cat_choice.ok
                             /\ cat_choice.value \in 1..Len(expense_categories),
                             DateInputs) :
       \E unanswered \in {add_expense(DB, current_user_id, amount_str, description_in,
                                      cat_in, date_in, <<>>, today)} :
       \E confirm_in \in Prompt("WARNING" \in Range(unanswered.out), ConfirmInputs) :
       \E r \in {add_expense(DB, current_user_id, amount_str, description_in,
                             cat_in, date_in, confirm_in, today)} :
          /\ RowsInserted(r.db) <= MaxRows
          /\ Handled("add_expense", r.db, r.out)
          /\ UNCHANGED session

MenuSetBudget ==
    /\ LoggedIn
    /\ \E cat_in \in BudgetCategoryInputs :
       \E cat_choice \in {int(cat_in)} :
       \E amount_str \in Prompt(/\ cat_choice.ok
                                /\ cat_choice.value \in 1..Len(expense_categories),
                                BudgetAmountInputs) :
       \E r \in {_set_budget(DB, current_user_id, cat_in, amount_str)} :
          /\ RowsInserted(r.db) <= MaxRows
          /\ Handled("_set_budget", r.db, r.out)
          /\ UNCHANGED session

NextMenu ==
    \/ MenuRegister
    \/ MenuLogin
    \/ MenuLogout
    \/ MenuAddExpense
    \/ MenuSetBudget

SpecMenu == Init /\ [][NextMenu]_vars

---------------------------------------------------------------------------
(* update_transaction and delete_transaction of FinanceManager: what they  *)
(* print, the store methods they call, and the inputs they find malformed  *)

\* the value update_transaction takes for a field: the old one when nothing
\* was typed or what was typed is malformed
NewAmount(old_amount, new_amount_str) ==
    Only({IF new_amount_str # <<>> /\ amount.ok THEN amount.amount ELSE old_amount
          : amount \in {validate_amount(new_amount_str)}})

NewCategory(old_category, categories, cat_input) ==
    Only({IF /\ cat_input # <<>>
             /\ cat_choice.ok
             /\ 1 <= cat_choice.value
             /\ cat_choice.value <= Len(categories)
          THEN categories[cat_choice.value]
          ELSE old_category
          : cat_choice \in {int(cat_input)}})

NewDate(old_date, new_date) ==
    IF new_date # <<>> /\ validate_date(new_date) THEN new_date ELSE old_date

\* the inputs of update_transaction that failed their validation: an amount
\* validate_amount returns None for, a category that is no number or none of
\* the list, a date validate_date rejects
Rejected(categories, new_amount_str, cat_input, new_date) ==
    (IF new_amount_str # <<>> /\ ~validate_amount(new_amount_str).ok
     THEN {"amount"} ELSE {})
    \cup (IF cat_input # <<>> /\ ~(/\ int(cat_input).ok
                                   /\ int(cat_input).value \in 1..Len(categories))
          THEN {"category"} ELSE {})
    \cup (IF new_date # <<>> /\ ~validate_date(new_date) THEN {"date"} ELSE {})

\* update_transaction from "Enter new values" on: each field is the new value
\* or the old one, and db.update_transaction is called in every case
UpdateFields(db, trans_id, old, new_amount_str, new_desc, cat_input, new_date) ==
    Only({Only({[db |-> r.db,
           out |-> (IF new_date # <<>> /\ ~validate_date(new_date)
                    THEN <<"Invalid date format! Keeping original date.">>
                    ELSE <<>>)
                   \o <<IF r.ret THEN "Transaction updated successfully!"
                        ELSE "Failed to update transaction!">>,
           calls |-> <<"get_transaction", "update_transaction">>,
           rejected |-> Rejected(categories, new_amount_str, cat_input, new_date)]
          : r \in {db_update_transaction(
                     db, trans_id,
                     NewAmount(old.amount, new_amount_str),
                     IF new_desc = <<>> THEN old.description ELSE new_desc,
                     NewCategory(old.category, categories, cat_input),
                     NewDate(old.date, new_date))}})
          : categories \in {IF old.type = "income" THEN income_categories
                            ELSE expense_categories}})

\* update_transaction: the id is parsed and the user's row read; then the
\* amount, description, category and date are read and db.update_transaction
\* is called
update_transaction(db, user_id, id_in, amount_in, desc_in, cat_in, date_in) ==
    Only({IF ~trans_id.ok
          THEN [db |-> db, out |-> <<"Please enter a valid transaction ID!">>,
                calls |-> <<>>, rejected |-> {"id"}]
          ELSE Only({IF transaction = NoneRow
                     THEN [db |-> db, out |-> <<"Transaction not found">>,
                           calls |-> <<"get_transaction">>, rejected |-> {}]
                     ELSE UpdateFields(db, trans_id.value, transaction,
                                       strip(amount_in), strip(desc_in),
                                       strip(cat_in), strip(date_in))
                     : transaction \in {get_transaction(db, trans_id.value, user_id)}})
          : trans_id \in {int(id_in)}})

\* delete_transaction: the id is parsed and the user's row read; the row is
\* deleted when the answer, in lower case, is y
delete_transaction(db, user_id, id_in, confirm_in) ==
    Only({IF ~trans_id.ok
          THEN [db |-> db, out |-> <<"Please enter a valid transaction ID!">>,
                calls |-> <<>>, rejected |-> {"id"}]
          ELSE IF get_transaction(db, trans_id.value, user_id) = NoneRow
          THEN [db |-> db, out |-> <<"Transaction not found">>,
                calls |-> <<"get_transaction">>, rejected |-> {}]
          ELSE IF lower(confirm_in) # <<"y">>
          THEN [db |-> db, out |-> <<"Deletion cancelled.">>,
                calls |-> <<"get_transaction">>, rejected |-> {}]
          ELSE Only({[db |-> r.db,
                      out |-> <<IF r.ret THEN "Transaction deleted successfully!"
                                ELSE "Failed to delete transaction!">>,
                      calls |-> <<"get_transaction", "delete_transaction">>,
                      rejected |-> {}]
                     : r \in {db_delete_transaction(db, trans_id.value)}})
          : trans_id \in {int(id_in)}})

\* what the user types at "Enter transaction ID": the first row, and no number
IdInputs == {<<"1">>, <<"x">>}

\* what the user types for the new values: nothing, a malformed value, and
\* for the description a new one
NewAmountInputs == {<<>>, <<"a", "b", "c">>}

NewDescriptionInputs == {<<>>, <<"n", "e", "w">>}

NewCategoryInputs == {<<>>, <<"x">>}

NewDateInputs == {<<>>, <<"2", "0", "2", "4", "-", "1", "3", "-", "0", "1">>}

\* the user's row of the id typed was found
Found(id_in) ==
    /\ int(id_in).ok
    /\ get_transaction(DB, int(id_in).value, current_user_id) # NoneRow

\* what update_transaction and delete_transaction leave in ret
Trace(r) == [out |-> r.out, calls |-> r.calls, rejected |-> r.rejected]

MenuUpdateTransaction ==
    /\ LoggedIn
    /\ \E id_in \in IdInputs :
       \E amount_in \in Prompt(Found(id_in), NewAmountInputs),
          desc_in \in Prompt(Found(id_in), NewDescriptionInputs),
          cat_in \in Prompt(Found(id_in), NewCategoryInputs),
          date_in \in Prompt(Found(id_in), NewDateInputs) :
       \E r \in {update_transaction(DB, current_user_id, id_in, amount_in, desc_in,
                                    cat_in, date_in)} :
          /\ Handled("FinanceManager.update_transaction", r.db, Trace(r))
          /\ UNCHANGED session

MenuDeleteTransaction ==
    /\ LoggedIn
    /\ \E id_in \in IdInputs :
       \E confirm_in \in Prompt(Found(id_in), ConfirmInputs) :
       \E r \in {delete_transaction(DB, current_user_id, id_in, confirm_in)} :
          /\ Handled("FinanceManager.delete_transaction", r.db, Trace(r))
          /\ UNCHANGED session

NextInput ==
    \/ MenuRegister
    \/ MenuLogin
    \/ MenuAddExpense
    \/ MenuUpdateTransaction
    \/ MenuDeleteTransaction

SpecInput == Init /\ [][NextInput]_vars

---------------------------------------------------------------------------
(* get_user_input under an interrupt, and add_income                       *)

\* what a prompt yields in place of a typed line when the user presses
\* Ctrl-C or the input ends: input() raises KeyboardInterrupt or EOFError
Interrupt == <<"KeyboardInterrupt">>

\* get_user_input: the line typed; the empty string when input() raised
get_user_input(typed) == IF typed = Interrupt THEN <<>> ELSE typed

\* the end of add_income: add_transaction is called and its result printed
AddIncomeAndReport(db, user_id, amount, description, category, date_str) ==
    Only({[db |-> r.db,
           out |-> <<IF r.ret THEN "Income added successfully!"
                     ELSE "Failed to add income!">>]
          : r \in {add_transaction(db, user_id, "income", amount, description,
                                   category, date_str)}})

\* add_income: amount, description, category number and date are read and
\* validated in turn, the date being today's when nothing was typed; then
\* the income is added
add_income(db, user_id, amount_str, description_in, cat_in, date_in, today) ==
    Only({IF ~amount.ok THEN [db |-> db, out |-> <<"Invalid amount">>]
          ELSE IF description = <<>>
          THEN [db |-> db, out |-> <<"Description cannot be empty!">>]
          ELSE IF ~cat_choice.ok
          THEN [db |-> db, out |-> <<"Please enter a valid number!">>]
          ELSE IF ~(1 <= cat_choice.value /\ cat_choice.value <= Len(income_categories))
          THEN [db |-> db, out |-> <<"Invalid category selection!">>]
          ELSE IF ~validate_date(date_str)
          THEN [db |-> db, out |-> <<"Invalid date format!">>]
          ELSE AddIncomeAndReport(db, user_id, amount.amount, description,
                                  income_categories[cat_choice.value], date_str)
          : amount \in {validate_amount(amount_str)},
            description \in {strip(description_in)},
            cat_choice \in {int(cat_in)},
            date_str \in {DateOrToday(date_in, today)}})

\* the prompts, of those named, at which input() raised
Interrupted(typed) == {name \in DOMAIN typed : typed[name] = Interrupt}

\* what a prompt may yield when it is reached: a typed line or an interrupt
PromptOrInterrupt(reached, inputs) == Prompt(reached, inputs \cup {Interrupt})

MenuAddIncome ==
    /\ LoggedIn
    /\ \E today \in Todays :
       \E amount_t \in PromptOrInterrupt(TRUE, AmountInputs) :
       \E description_t \in PromptOrInterrupt(
                                validate_amount(get_user_input(amount_t)).ok,
                                DescriptionInputs) :
       \E cat_t \in PromptOrInterrupt(strip(get_user_input(description_t)) # <<>>,
                                      CategoryInputs) :
       \E cat_choice \in {int(get_user_input(cat_t))} :
       \E date_t \in PromptOrInterrupt(/\ cat_choice.ok
                                       /\ cat_choice.value \in 1..Len(income_categories),
                                       DateInputs) :
       \E r \in {add_income(DB, current_user_id, get_user_input(amount_t),
                            get_user_input(description_t), get_user_input(cat_t),
                            get_user_input(date_t), today)} :
          /\ RowsInserted(r.db) <= MaxRows
          /\ Handled("add_income", r.db,
                     [out |-> r.out,
                      interrupted |-> Interrupted([amount |-> amount_t,
                                                   description |-> description_t,
                                                   category |-> cat_t,
                                                   date |-> date_t])])
          /\ UNCHANGED session

\* the user's row of the id the prompt yielded was found
FoundAt(id_t) == id_t # Interrupt /\ Found(id_t)

\* update_transaction with prompts that may be interrupted
MenuUpdateInterrupted ==
    /\ LoggedIn
    /\ \E id_t \in PromptOrInterrupt(TRUE, IdInputs) :
       \E amount_t \in PromptOrInterrupt(FoundAt(id_t), NewAmountInputs),
          desc_t \in PromptOrInterrupt(FoundAt(id_t), NewDescriptionInputs),
          cat_t \in PromptOrInterrupt(FoundAt(id_t), NewCategoryInputs),
          date_t \in PromptOrInterrupt(FoundAt(id_t), NewDateInputs) :
       \E r \in {update_transaction(DB, current_user_id, get_user_input(id_t),
                                    get_user_input(amount_t), get_user_input(desc_t),
                                    get_user_input(cat_t), get_user_input(date_t))} :
          /\ Handled("update_transaction (interrupted)", r.db,
                     [out |-> r.out, calls |-> r.calls,
                      interrupted |-> Interrupted([id |-> id_t, amount |-> amount_t,
                                                   description |-> desc_t,
                                                   category |-> cat_t,
                                                   date |-> date_t])])
          /\ UNCHANGED session

NextInterrupt ==
    \/ MenuRegister
    \/ MenuLogin
    \/ MenuAddIncome
    \/ MenuUpdateInterrupted

SpecInterrupt == Init /\ [][NextInterrupt]_vars

---------------------------------------------------------------------------
(* _check_budget_warning over stores that set_budget and add_transaction   *)
(* have written, as test_budget_warning_check calls it                     *)

\* the amounts of the expense about to be added
ExpenseAmounts == {20000, 30000}

\* the dates of the expense about to be added: a day of October 2024 and a
\* day of February 2024
ExpenseDates == {<<"2", "0", "2", "4", "-", "1", "0", "-", "0", "1">>,
                 <<"2", "0", "2", "4", "-", "0", "2", "-", "0", "1">>}

CheckBudgetWarning ==
    \E user_id \in UserIds, category \in BudgetCategories, amount \in ExpenseAmounts,
       date_str \in ExpenseDates, confirm_in \in ConfirmInputs :
        Read("_check_budget_warning",
             [user_id |-> user_id, category |-> category, amount |-> amount,
              date_str |-> date_str],
             _check_budget_warning(DB, user_id, category, amount, date_str, confirm_in))

NextWarning ==
    \/ SetBudget
    \/ AddTransaction
    \/ CheckBudgetWarning

SpecWarning == Init /\ [][NextWarning]_vars

---------------------------------------------------------------------------
(* A fault of the store during a call: sqlite3 raises inside the with      *)
(* block, the connection rolls back, and "except Exception" returns        *)

\* the dict get_monthly_report returns when an exception is caught
MonthlyReportFailed ==
    [total_income |-> 0, total_expenses |-> 0, net_savings |-> 0,
     income_by_category |-> <<>>, expenses_by_category |-> <<>>]

\* what the except branch of each method of DatabaseManager returns
ExceptReturn ==
    [create_user |-> FALSE, get_user |-> NoneRow, authenticate_user |-> NoneRow,
     add_transaction |-> FALSE, get_user_transactions |-> <<>>,
     get_transaction |-> NoneRow, update_transaction |-> FALSE,
     delete_transaction |-> FALSE, get_monthly_report |-> MonthlyReportFailed,
     get_yearly_report |-> YearlyReportFailed,
     get_category_summary |-> [income_categories |-> <<>>, expense_categories |-> <<>>],
     set_budget |-> FALSE, get_user_budgets |-> <<>>, get_category_budget |-> NoneRow,
     update_budget |-> FALSE, delete_budget |-> FALSE, get_monthly_spending |-> 0,
     get_user_backup_data |-> [backup_date |-> BackupDate, transactions |-> <<>>,
                               budgets |-> <<>>],
     restore_user_data |-> FALSE]

\* a method whose statements raised without the rollback of the with block
Caught_no_rollback(method, before, partial) ==
    [db |-> partial, ret |-> ExceptReturn[method], raised |-> FALSE]

\* a method whose statements raised: leaving the with block rolls back what
\* they wrote, the except branch returns, and nothing is raised to the caller
Caught(method, before, partial) ==
    [db |-> rollback(before, partial), ret |-> ExceptReturn[method], raised |-> FALSE]

\* where a call may be when the store raises: before any statement has
\* written (every method), or after its statements have written and before
\* the commit is done (the methods that write): the method and what its
\* statements have written so far
FaultPoints ==
    {[method |-> m, partial |-> DB] : m \in DOMAIN ExceptReturn}
    \cup {[method |-> "add_transaction",
           partial |-> add_transaction(DB, user_id, "expense", v.amount, v.description,
                                       v.category, v.date).db]
          : user_id \in UserIds, v \in TransactionValues}
    \cup {[method |-> "update_transaction",
           partial |-> db_update_transaction(DB, trans_id, v.amount, v.description,
                                             v.category, v.date).db]
          : trans_id \in RowIds, v \in TransactionValues}
    \cup {[method |-> "delete_transaction",
           partial |-> db_delete_transaction(DB, trans_id).db] : trans_id \in RowIds}
    \cup {[method |-> "set_budget",
           partial |-> set_budget(DB, user_id, category, amount).db]
          : user_id \in UserIds, category \in BudgetCategories, amount \in BudgetAmounts}
    \cup {[method |-> "delete_budget",
           partial |-> delete_budget(DB, budget_id).db] : budget_id \in RowIds}
    \cup {[method |-> "restore_user_data", partial |-> DeleteUserData(DB, user_id)]
          : user_id \in UserIds}
    \cup {[method |-> "restore_user_data",
           partial |-> restore_transactions(DeleteUserData(DB, user_id), user_id,
                                            get(backup_data, "transactions")).db]
          : user_id \in UserIds, backup_data \in Backups}

\* a call of a store method during which the store raises
StoreFault ==
    \E point \in FaultPoints :
    \E r \in {Caught(point.method, DB, point.partial)} :
        /\ Commit(r.db)
        /\ op' = point.method
        /\ args' = [fault |-> TRUE, written |-> point.partial # DB]
        /\ ret' = r.ret
        /\ pc' = IF r.raised THEN "raised" ELSE pc
        /\ UNCHANGED session

NextFault ==
    \/ AddTransaction
    \/ SetBudget
    \/ StoreFault

SpecFault == Init /\ [][NextFault]_vars

---------------------------------------------------------------------------
(* The operations of a session on transactions, budgets and backup files:  *)
(* what each one writes, prints and shows of the rows of the store         *)

\* the rows of the store an operation printed
Shown(ts, bs) == [transactions |-> ts, budgets |-> bs]

\* no file was written
NoFile == [none |-> TRUE]

\* what an operation of the session leaves in ret: what it printed, the rows
\* it showed, and the document it wrote to a file
Session(r, shown, file) == [out |-> r.out, shown |-> shown, file |-> file]

\* "Current details" of update_transaction and "Transaction to delete" of
\* delete_transaction: the row get_transaction returned for the id typed
ShownTransaction(db, user_id, id_in) ==
    Only({IF ~trans_id.ok THEN {}
          ELSE {get_transaction(db, trans_id.value, user_id)} \ {NoneRow}
          : trans_id \in {int(id_in)}})

\* the budgets _update_budget and _delete_budget list, those of every user
ListedBudgets_of_all(db, user_id) == AnyOrder(db.budgets)

\* budgets = self.db.get_user_budgets(self.current_user_id) of _update_budget
\* and _delete_budget: the lists that may be numbered and printed
ListedBudgets(db, user_id) == get_user_budgets(db, user_id)

\* the end of _update_budget: update_budget is called and the result printed
UpdateAndReport(db, budget_id, amount) ==
    Only({[db |-> r.db,
           out |-> <<IF r.ret THEN "Budget updated" ELSE "Failed to update budget!">>]
          : r \in {update_budget(db, budget_id, amount)}})

\* _update_budget: the budgets listed are numbered from 1, the number typed
\* selects one, and the amount typed, when valid, replaces its amount
_update_budget(db, listed, choice_in, amount_str) ==
    Only({IF listed = <<>> THEN [db |-> db, out |-> <<"No budgets set.">>]
          ELSE IF ~choice.ok THEN [db |-> db, out |-> <<"Please enter a valid number!">>]
          ELSE IF ~(1 <= choice.value /\ choice.value <= Len(listed))
          THEN [db |-> db, out |-> <<"Invalid selection!">>]
          ELSE IF ~amount.ok THEN [db |-> db, out |-> <<"Invalid amount">>]
          ELSE UpdateAndReport(db, listed[choice.value].id, amount.amount)
          : choice \in {int(choice_in)}, amount \in {validate_amount(amount_str)}})

\* the end of _delete_budget: delete_budget is called and the result printed
DeleteAndReport(db, budget_id) ==
    Only({[db |-> r.db,
           out |-> <<IF r.ret THEN "Budget deleted" ELSE "Failed to delete budget!">>]
          : r \in {delete_budget(db, budget_id)}})

\* _delete_budget: the number typed selects one of the budgets listed, and
\* the answer y (in either case) deletes it
_delete_budget(db, listed, choice_in, confirm_in) ==
    Only({IF listed = <<>> THEN [db |-> db, out |-> <<"No budgets set.">>]
          ELSE IF ~choice.ok THEN [db |-> db, out |-> <<"Please enter a valid number!">>]
          ELSE IF ~(1 <= choice.value /\ choice.value <= Len(listed))
          THEN [db |-> db, out |-> <<"Invalid selection!">>]
          ELSE IF lower(confirm_in) # <<"y">>
          THEN [db |-> db, out |-> <<"Deletion cancelled.">>]
          ELSE DeleteAndReport(db, listed[choice.value].id)
          : choice \in {int(choice_in)}})

\* a file name typed at "Enter backup filename": no such file, a file that
\* is not JSON, or a file holding a document
NoSuchFile == [exists |-> FALSE]

NotJson == [exists |-> TRUE, json |-> FALSE]

JsonFile(backup_data) == [exists |-> TRUE, json |-> TRUE, data |-> backup_data]

\* the end of restore_data: restore_user_data is called and the result printed
RestoreAndReport(db, user_id, backup_data) ==
    Only({[db |-> r.db,
           out |-> <<IF r.ret THEN "Data restored successfully!" ELSE "Restore failed!">>]
          : r \in {restore_user_data(db, user_id, backup_data)}})

\* restore_data: the file named is looked up and parsed (a parse error is
\* caught and printed), the user is asked, and on y (in either case) the
\* document is handed to restore_user_data as it was read
restore_data(db, user_id, file, confirm_in) ==
    IF ~file.exists THEN [db |-> db, out |-> <<"Backup file not found!">>]
    ELSE IF ~file.json THEN [db |-> db, out |-> <<"Restore failed: ">>]
    ELSE IF lower(confirm_in) # <<"y">> THEN [db |-> db, out |-> <<"Restore cancelled.">>]
    ELSE RestoreAndReport(db, user_id, file.data)

\* the amount typed for an income: a tenth of a cent
IncomeAmount == <<"0", ".", "0", "0", "1">>

\* the amount typed for an expense and for a budget, and for a budget updated
SessionAmount == <<"3", "0", "0">>

NewBudgetAmount == <<"5", "0", "0">>

SessionDescription == <<"f", "o", "o", "d">>

SessionDate == <<"2", "0", "2", "4", "-", "1", "0", "-", "0", "1">>

\* ids and list numbers typed in a session
NumberInputs == {<<"1">>, <<"2">>}

\* answers to a confirmation
YesOrNothing == {<<"Y">>, <<>>}

\* the files of the working directory: none of the name typed, one that is
\* not JSON, a backup of one expense, and a document whose transaction has
\* an amount below zero and whose categories are of no list
Files == {
    NoSuchFile,
    NotJson,
    JsonFile([backup_date |-> "d", transactions |-> <<FoodRecord>>]),
    JsonFile([backup_date |-> "d",
              transactions |-> <<[FoodRecord EXCEPT !.amount = 0 - 500,
                                                    !.category = "Pets"]>>,
              budgets |-> <<[category |-> "Pets", amount |-> 50000]>>])}

SessionAddIncome ==
    /\ LoggedIn
    /\ RowsInserted(DB) < MaxRows
    /\ \E amount_str \in {IncomeAmount}, today \in Todays :
       \E r \in {add_income(DB, current_user_id, amount_str, SessionDescription,
                            <<"1">>, SessionDate, today)} :
          /\ RowsInserted(r.db) <= MaxRows
          /\ Handled("add_income", r.db, Session(r, Shown({}, {}), NoFile))
          /\ UNCHANGED session

SessionAddExpense ==
    /\ LoggedIn
    /\ RowsInserted(DB) < MaxRows
    /\ \E amount_str \in {SessionAmount}, today \in Todays :
       \E unanswered \in {add_expense(DB, current_user_id, amount_str,
                                      SessionDescription, <<"1">>, SessionDate,
                                      <<>>, today)} :
       \E confirm_in \in Prompt("WARNING" \in Range(unanswered.out), {<<"Y">>}) :
       \E r \in {add_expense(DB, current_user_id, amount_str, SessionDescription,
                             <<"1">>, SessionDate, confirm_in, today)} :
          /\ RowsInserted(r.db) <= MaxRows
          /\ Handled("add_expense", r.db, Session(r, Shown({}, {}), NoFile))
          /\ UNCHANGED session

SessionUpdateTransaction ==
    /\ LoggedIn
    /\ \E id_in \in NumberInputs :
       \E found \in {Found(id_in)} :
       \E amount_in \in Prompt(found, {<<>>}), cat_in \in Prompt(found, {<<>>, <<"2">>}) :
       \E r \in {update_transaction(DB, current_user_id, id_in, amount_in, <<>>,
                                    cat_in, <<>>)} :
          /\ Handled("update_transaction", r.db,
                     Session(r, Shown(ShownTransaction(DB, current_user_id, id_in), {}),
                             NoFile))
          /\ UNCHANGED session

SessionDeleteTransaction ==
    /\ LoggedIn
    /\ \E id_in \in NumberInputs :
       \E confirm_in \in Prompt(Found(id_in), YesOrNothing) :
       \E r \in {delete_transaction(DB, current_user_id, id_in, confirm_in)} :
          /\ Handled("delete_transaction", r.db,
                     Session(r, Shown(ShownTransaction(DB, current_user_id, id_in), {}),
                             NoFile))
          /\ UNCHANGED session

SessionSetBudget ==
    /\ LoggedIn
    /\ RowsInserted(DB) < MaxRows
    /\ \E cat_in \in {<<"1">>}, amount_str \in {SessionAmount} :
       \E r \in {_set_budget(DB, current_user_id, cat_in, amount_str)} :
          /\ RowsInserted(r.db) <= MaxRows
          /\ Handled("_set_budget", r.db, Session(r, Shown({}, {}), NoFile))
          /\ UNCHANGED session

SessionUpdateBudget ==
    /\ LoggedIn
    /\ \E listed \in ListedBudgets(DB, current_user_id) :
       \E choice_in \in Prompt(listed # <<>>, NumberInputs) :
       \E amount_str \in Prompt(/\ listed # <<>>
                                /\ int(choice_in).value \in 1..Len(listed),
                                {NewBudgetAmount}) :
       \E r \in {_update_budget(DB, listed, choice_in, amount_str)} :
          /\ Handled("_update_budget", r.db,
                     Session(r, Shown({}, Range(listed)), NoFile))
          /\ UNCHANGED session

SessionDeleteBudget ==
    /\ LoggedIn
    /\ \E listed \in ListedBudgets(DB, current_user_id) :
       \E choice_in \in Prompt(listed # <<>>, NumberInputs) :
       \E confirm_in \in Prompt(/\ listed # <<>>
                                /\ int(choice_in).value \in 1..Len(listed),
                                YesOrNothing) :
       \E r \in {_delete_budget(DB, listed, choice_in, confirm_in)} :
          /\ Handled("_delete_budget", r.db,
                     Session(r, Shown({}, Range(listed)), NoFile))
          /\ UNCHANGED session

\* backup_data: the document get_user_backup_data returns for the user
\* logged in is written to a file named after the user and the time
SessionBackup ==
    /\ LoggedIn
    /\ \E backup_data \in get_user_backup_data(DB, current_user_id) :
          /\ Handled("backup_data", DB,
                     [out |-> <<"Data backed up successfully">>,
                      shown |-> Shown({}, {}), file |-> backup_data])
          /\ UNCHANGED session

SessionRestore ==
    /\ LoggedIn
    /\ \E file \in Files :
       \E confirm_in \in Prompt(file.exists /\ file.json, YesOrNothing) :
       \E r \in {restore_data(DB, current_user_id, file, confirm_in)} :
          /\ RowsInserted(r.db) <= MaxRows
          /\ Handled("restore_data", r.db, Session(r, Shown({}, {}), NoFile))
          /\ UNCHANGED session

NextSession ==
    \/ MenuRegister
    \/ MenuLogin
    \/ MenuLogout
    \/ SessionAddIncome
    \/ SessionAddExpense
    \/ SessionUpdateTransaction
    \/ SessionDeleteTransaction
    \/ SessionSetBudget
    \/ SessionUpdateBudget
    \/ SessionDeleteBudget
    \/ SessionBackup
    \/ SessionRestore

SpecSession == Init /\ [][NextSession]_vars

---------------------------------------------------------------------------
(* Amounts as the store holds them: the column amount is REAL, an IEEE-754 *)
(* double, and SUM and Python add doubles, rounding each addition          *)

\* the binary places of the significand of a double
Mantissa == 53

\* a number in binary places, most significant first: 12 before the point
\* and 65 after it, enough for every double between a cent and the sums of
\* the amounts below; the first n places of a function, as a sequence
Places(f, n) == SubSeq(f, 1, n)

\* n in w binary places
IntBits(n, w) == Places([i \in 1..w |-> (n \div 2 ^ (w - i)) % 2], w)

\* r / 100 for r < 100 in w binary places after the point, eight at a time,
\* and one more place that is 1 when the places beyond are not all 0
RECURSIVE FracBits(_, _)
FracBits(r, w) ==
    IF w = 0 THEN <<IF r = 0 THEN 0 ELSE 1>>
    ELSE Only({IntBits(q, 8) \o FracBits(m, w - 8)
               : q \in {(256 * r) \div 100}, m \in {(256 * r) % 100}})

\* the place of the first 1, or 0 when there is none
Leading(bits) ==
    IF \A i \in 1..Len(bits) : bits[i] = 0 THEN 0
    ELSE CHOOSE i \in 1..Len(bits) : bits[i] = 1 /\ \A j \in 1..(i - 1) : bits[j] = 0

\* one unit added at place k
Increment(bits, k) ==
    Only({Places([i \in 1..Len(bits) |-> IF i < j THEN bits[i] ELSE IF i = j THEN 1
                                         ELSE IF i <= k THEN 0 ELSE bits[i]], Len(bits))
          : j \in {CHOOSE i \in 1..k : bits[i] = 0 /\ \A h \in (i + 1)..k : bits[h] = 1}})

\* round to nearest, ties to even, keeping the places up to last
RoundAt(bits, last) ==
    IF last >= Len(bits) THEN bits
    ELSE Only({IF /\ bits[last + 1] = 1
                  /\ \/ bits[last] = 1
                     \/ \E j \in (last + 2)..Len(bits) : bits[j] = 1
               THEN Increment(kept, last) ELSE kept
               : kept \in {Places([i \in 1..Len(bits) |-> IF i <= last THEN bits[i] ELSE 0],
                                   Len(bits))}})

\* the double nearest to a number: its first Mantissa significant places
Round(bits) ==
    Only({IF first = 0 THEN bits ELSE RoundAt(bits, first + Mantissa - 1)
          : first \in {Leading(bits)}})

\* the carry into place k of a + b
CarryInto(a, b, k) ==
    \E j \in (k + 1)..Len(a) :
        /\ a[j] = 1 /\ b[j] = 1
        /\ \A i \in (k + 1)..(j - 1) : a[i] + b[i] = 1

\* a + b, exactly
Plus(a, b) ==
    Places([k \in 1..Len(a) |-> (a[k] + b[k] + IF CarryInto(a, b, k) THEN 1 ELSE 0) % 2],
           Len(a))

\* the REAL stored for an amount of so many cents: the double nearest to it
double(cents) ==
    Only({Round(bits) : bits \in {IntBits(cents \div 100, 12) \o FracBits(cents % 100, 64)}})

\* p + q of two doubles: the double nearest to the sum
fadd(p, q) == Only({Round(sum) : sum \in {Only({Plus(a, b) : a \in {p}, b \in {q}})}})

\* 0, the start of SUM and of Python's sum, and the default of dict.get
Zero == Places([i \in 1..(12 + 65) |-> 0], 12 + 65)

\* SUM(amount) over rows: the amounts are added to the sum one by one in the
\* order of the rowid
RECURSIVE SumReal(_, _)
SumReal(rows, acc) ==
    IF rows = {} THEN acc
    ELSE Only({Only({Only({SumReal(rest, sum) : rest \in {rows \ {r}}, sum \in {fadd(acc, d)}})
                     : d \in {double(r.amount)}})
               : r \in {CHOOSE x \in rows : \A y \in rows : x.id <= y.id}})

\* x - y of two doubles, kept as the subtraction of its operands
Minus(x, y) == <<x, "-", y>>

\* one entry of monthly_summary, with the sums of the month as doubles
EntryOfDoubles(month, income, expenses) ==
    [month |-> month, income |-> income, expenses |-> expenses,
     savings |-> Minus(income, expenses)]

\* the rows of a type dated in a month
OfTypeInMonth(rows, trans_type, month) ==
    {t \in rows : t.type = trans_type /\ DecimalValue(strftime_m(t.date)) = month}

\* get_yearly_report with the sums as the store and Python compute them: the
\* totals are SUM(amount) over the rows of a type of the year, the monthly
\* entries SUM(amount) over those of each month
yearly_report_of_doubles(rows) ==
    Only({Only({[total_income |-> total_income,
                 total_expenses |-> total_expenses,
                 net_savings |-> Minus(total_income, total_expenses),
                 monthly_summary |-> monthly_summary]
                : monthly_summary \in
                    {Places([m \in 1..MonthsOfYear |->
                               Only({EntryOfDoubles(m, income, expenses)
                                     : income \in {SumReal(OfTypeInMonth(rows, "income", m),
                                                           Zero)},
                                       expenses \in {SumReal(OfTypeInMonth(rows, "expense", m),
                                                             Zero)}})],
                            MonthsOfYear)}})
          : total_income \in {SumReal({t \in rows : t.type = "income"}, Zero)},
            total_expenses \in {SumReal({t \in rows : t.type = "expense"}, Zero)}})

\* incomes of ten, twenty and thirty cents and an expense of ten, dated in
\* January and February
TenthValues == {
    [type |-> "income", amount |-> 10,
     date |-> <<"2", "0", "2", "4", "-", "0", "1", "-", "0", "5">>],
    [type |-> "income", amount |-> 20,
     date |-> <<"2", "0", "2", "4", "-", "0", "2", "-", "0", "5">>],
    [type |-> "income", amount |-> 30,
     date |-> <<"2", "0", "2", "4", "-", "0", "2", "-", "1", "0">>],
    [type |-> "expense", amount |-> 10,
     date |-> <<"2", "0", "2", "4", "-", "0", "1", "-", "0", "5">>]}

AddTenths ==
    /\ RowsInserted(DB) <= MaxRows
    /\ \E user_id \in UserIds, v \in TenthValues :
       \E r \in {add_transaction(DB, user_id, v.type, v.amount, <<"t", "e", "a">>,
                                 "Other", v.date)} :
          Call("add_transaction", [user_id |-> user_id, values |-> v], r)

GetYearlyReportOfDoubles ==
    \E user_id \in UserIds :
    \E rows \in {RowsOfYear(DB, user_id, str(2024))} :
        Read("get_yearly_report", [user_id |-> user_id, year |-> 2024],
             yearly_report_of_doubles(rows))

NextDoubles ==
    \/ AddTenths
    \/ GetYearlyReportOfDoubles

SpecDoubles == Init /\ [][NextDoubles]_vars

---------------------------------------------------------------------------
(* main(): the loop over the two menus, its exit, and an exception that    *)
(* no handler catches                                                      *)

\* datetime.MINYEAR and datetime.MAXYEAR: datetime(year, month, 1) raises
\* ValueError for a year outside them
MinYear == 1

MaxYear == 9999

\* view_transactions: the user's rows, newest first, the description cut to
\* 18 characters; or the message that there are none
view_transactions(db, user_id) ==
    Only({IF rows = <<>> THEN <<"No transactions found.">>
          ELSE [i \in 1..Len(rows) |->
                  [id |-> rows[i].id, type |-> rows[i].type,
                   amount |-> rows[i].amount, category |-> rows[i].category,
                   description |-> SubSeq(rows[i].description, 1,
                                          IF Len(rows[i].description) < 18
                                          THEN Len(rows[i].description) ELSE 18),
                   date |-> rows[i].date]]
          : rows \in {get_user_transactions(db, user_id)}})

\* _generate_monthly_report: the text typed, or the current month for an
\* empty one, is split at the dashes into two integers, the month in 1..12;
\* anything else is a ValueError the method catches
_generate_monthly_report(db, user_id, month_year_in, today) ==
    Only({IF Len(parts) # 2
          THEN [out |-> <<"Invalid month format! Use YYYY-MM">>, raised |-> FALSE]
          ELSE Only({IF ~(year.ok /\ month.ok /\ month.value \in 1..12)
                     THEN [out |-> <<"Invalid month format! Use YYYY-MM">>,
                           raised |-> FALSE]
                     ELSE [out |-> <<"Monthly Report",
                                     get_monthly_report(db, user_id, year.value,
                                                        month.value)>>,
                           raised |-> FALSE]
                     : year \in {int(parts[1])}, month \in {int(parts[2])}})
          : parts \in {split(IF strip(month_year_in) = <<>> THEN SubSeq(today, 1, 7)
                             ELSE strip(month_year_in))}})

\* _generate_yearly_report: the text typed is an integer, or the current year
\* for an empty one; the report of the store is printed, and for each entry
\* of its monthly summary datetime(year, month, 1) is built: outside a
\* try block, so that its ValueError leaves the method
_generate_yearly_report(db, user_id, year_in, today) ==
    Only({IF ~year.ok
          THEN [out |-> <<"Invalid year format!">>, raised |-> FALSE]
          ELSE Only({IF /\ report.monthly_summary # <<>>
                        /\ year.value \notin MinYear..MaxYear
                     THEN [out |-> <<"ValueError", report>>, raised |-> TRUE]
                     ELSE [out |-> <<"Yearly Report", report>>, raised |-> FALSE]
                     : report \in {get_yearly_report(db, user_id, year.value)}})
          : year \in {int(IF strip(year_in) = <<>> THEN SubSeq(today, 1, 4)
                          ELSE strip(year_in))}})

\* generate_reports: the choice of the report, compared as typed
generate_reports(db, user_id, choice, text, today) ==
    IF choice = "1" THEN _generate_monthly_report(db, user_id, text, today)
    ELSE IF choice = "2" THEN _generate_yearly_report(db, user_id, text, today)
    ELSE [out |-> <<"Invalid choice!">>, raised |-> FALSE]

\* what the user types at "Select report type": the monthly and the yearly
\* report, and no report
ReportChoices == {"1", "2", "9"}

\* what the user types at "Enter month and year"
MonthYearInputs == {<<>>, <<"2", "0", "2", "4", "-", "1", "0">>,
                    <<"2", "0", "2", "4", "-", "1", "3">>,
                    <<"2", "0", "2", "4">>}

\* what the user types at "Enter year": nothing, a year, no number, and
\* numbers that are no year of the calendar
YearInputs == {<<>>, <<"2", "0", "2", "4">>, <<"a", "b", "c">>, <<"0">>,
               <<"1", "0", "0", "0", "0">>}

\* what the user types at a menu that is none of its choices
OtherChoices == {"", "0", "x"}

\* the loop is at the top of "while True"
AtMenu == pc = "menu"

\* a menu operation that reads the store has run: what it printed, and
\* whether it returned to the loop or left it by an exception
Returned(name, arguments, r) ==
    /\ op' = name
    /\ args' = arguments
    /\ ret' = r.out
    /\ pc' = IF r.raised THEN "raised" ELSE "menu"
    /\ UNCHANGED <<users, transactions, budgets, sqlite_sequence, session>>

MainRegister == AtMenu /\ MenuRegister

MainLogin == AtMenu /\ MenuLogin

\* choice "3" of the authentication menu: break
MainExit ==
    /\ AtMenu
    /\ ~LoggedIn
    /\ op' = "exit"
    /\ args' = [choice |-> "3"]
    /\ ret' = <<"Thank you for using Personal Finance Manager!">>
    /\ pc' = "exited"
    /\ UNCHANGED <<users, transactions, budgets, sqlite_sequence, session>>

\* the else branch of either menu
MainInvalidChoice ==
    /\ AtMenu
    /\ \E choice \in OtherChoices :
          Returned("main", [choice |-> choice],
                   [out |-> <<"Invalid choice. Please try again.">>,
                    raised |-> FALSE])

MainAddExpense == AtMenu /\ MenuAddExpense

MainViewTransactions ==
    /\ AtMenu
    /\ LoggedIn
    /\ Returned("view_transactions", [choice |-> "3"],
                [out |-> view_transactions(DB, current_user_id), raised |-> FALSE])

MainGenerateReports ==
    /\ AtMenu
    /\ LoggedIn
    /\ \E choice \in ReportChoices, today \in Todays :
       \E text \in Prompt(choice \in {"1", "2"},
                          IF choice = "1" THEN MonthYearInputs ELSE YearInputs) :
       \E r \in {generate_reports(DB, current_user_id, choice, text, today)} :
          Returned("generate_reports", [choice |-> choice, text |-> text], r)

MainLogout == AtMenu /\ MenuLogout

NextMain ==
    \/ MainRegister
    \/ MainLogin
    \/ MainExit
    \/ MainInvalidChoice
    \/ MainAddExpense
    \/ MainViewTransactions
    \/ MainGenerateReports
    \/ MainLogout

SpecMain == Init /\ [][NextMain]_vars

---------------------------------------------------------------------------
(* Properties of the users table                                           *)

UsernamesUnique == \A u, v \in users : u.username = v.username => u = v

CreateUserStep ==
    op' = "create_user" =>
        LET present == \E u \in users : u.username = args'.username
        IN /\ ret' = ~present
           /\ present => users' = users /\ sqlite_sequence' = sqlite_sequence
           /\ ~present => users' = users \cup
                            {[id |-> sqlite_sequence.users + 1,
                              username |-> args'.username,
                              password_hash |-> args'.password_hash]}

\* C4: usernames are unique in every reachable state; create_user returns
\* True and stores the user when the username is not yet present, and
\* returns False and leaves the users table alone when it is present.
C4_UsernamesUnique == []UsernamesUnique /\ [][CreateUserStep]_vars

\* two users are stored and a further create_user of a stored username, with
\* another password hash, has returned False
C4_Witness ==
    /\ op = "create_user"
    /\ ret = FALSE
    /\ Cardinality(users) = 2
    /\ \E u \in users : /\ u.username = args.username
                        /\ u.password_hash # args.password_hash

\* C5: authenticate_user(u, h) returns a record iff a stored user has
\* username u and password hash h, and the record is that user's id and
\* username; otherwise it returns None.
C5_Authenticate ==
    op = "authenticate_user" =>
        LET match == {u \in users : /\ u.username = args.username
                                    /\ u.password_hash = args.password_hash}
        IN IF match = {} THEN ret = NoneRow
           ELSE \E u \in match : ret = [id |-> u.id, username |-> u.username]

\* the username is stored, the hash is another one, and None came back
C5_Witness ==
    /\ op = "authenticate_user"
    /\ ret = NoneRow
    /\ \E u \in users : /\ u.username = args.username
                        /\ u.password_hash # args.password_hash

---------------------------------------------------------------------------
(* Properties of the transactions and budgets tables                       *)

Ids(rows) == {r.id : r \in rows}

OwnedBy(rows, user_id) == {r \in rows : r.user_id = user_id}

\* a failed restore_user_data leaves the whole store as it was
RestoreFailureStep ==
    (op' = "restore_user_data" /\ ret' = FALSE) =>
        /\ transactions' = transactions
        /\ budgets' = budgets
        /\ sqlite_sequence' = sqlite_sequence
        /\ users' = users

\* C2 (as amended): restore_user_data is failure-atomic.  When it fails after
\* its delete phase has run but before re-insertion completes, it returns
\* False and the transaction is rolled back: the user's previously stored
\* transactions and budgets are all still stored, unchanged.
C2_RestoreRollsBack == [][RestoreFailureStep]_vars

\* a restore has failed at its second record, after the deletes and one
\* insert, for a user who had a transaction and a budget stored
C2_Witness ==
    /\ op = "restore_user_data"
    /\ ret = FALSE
    /\ Len(get(args.backup_data, "transactions")) = 2
    /\ OwnedBy(transactions, args.user_id) # {}
    /\ OwnedBy(budgets, args.user_id) # {}

\* C2 (as stated): when restore_user_data returns False, the transactions and
\* budgets the user had stored before the call stay deleted.
C2_NoRollback ==
    [][(op' = "restore_user_data" /\ ret' = FALSE) =>
          /\ OwnedBy(transactions, args'.user_id) \cap transactions' = {}
          /\ OwnedBy(budgets, args'.user_id) \cap budgets' = {}]_vars

OneBudgetPerCategory ==
    \A a, b \in budgets :
        (a.user_id = b.user_id /\ a.category = b.category) => a = b

SetBudgetStep ==
    op' = "set_budget" =>
        /\ ret' = TRUE
        /\ \E b \in budgets' :
              /\ b.amount = args'.amount
              /\ {c \in budgets' : /\ c.user_id = args'.user_id
                                   /\ c.category = args'.category} = {b}
        /\ \A c \in budgets :
              (c.user_id # args'.user_id \/ c.category # args'.category)
                  => c \in budgets'

\* C3: after any sequence of set_budget, update_budget, delete_budget and
\* restore_user_data calls there is at most one budget row per (user,
\* category); set_budget leaves exactly one row for its pair, carrying the
\* amount of the latest call, and keeps every other budget.
C3_OneBudgetPerCategory == []OneBudgetPerCategory /\ [][SetBudgetStep]_vars

\* the second set_budget of a pair: the first row is gone, the row of the
\* second call is the only one
C3_Witness ==
    /\ op = "set_budget"
    /\ sqlite_sequence.budgets = 2
    /\ budgets = {[id |-> 2, user_id |-> args.user_id,
                   category |-> args.category, amount |-> args.amount]}

\* C6: get_transaction(id, userId) returns the row with that id when userId
\* owns it, and None otherwise, also when another user owns a row of that id.
C6_GetTransactionScoped ==
    op = "get_transaction" =>
        LET owned == {t \in transactions : /\ t.id = args.trans_id
                                           /\ t.user_id = args.user_id}
        IN IF owned = {} THEN ret = NoneRow ELSE ret \in owned

\* the id is stored, another user owns it, and None came back
C6_Witness ==
    /\ op = "get_transaction"
    /\ ret = NoneRow
    /\ \E t \in transactions : t.id = args.trans_id /\ t.user_id # args.user_id

DeleteTransactionStep ==
    op' = "delete_transaction" =>
        LET hit == {t \in transactions : t.id = args'.trans_id}
        IN /\ ret' = (hit # {})
           /\ Cardinality(hit) <= 1
           /\ transactions' = transactions \ hit
           /\ budgets' = budgets

DeleteBudgetStep ==
    op' = "delete_budget" =>
        LET hit == {b \in budgets : b.id = args'.budget_id}
        IN /\ ret' = (hit # {})
           /\ Cardinality(hit) <= 1
           /\ budgets' = budgets \ hit
           /\ transactions' = transactions

\* an id that was given out and is no longer in its table never comes back
DeletedStaysDeleted ==
    /\ \A id \in (1..sqlite_sequence.transactions) \ Ids(transactions) :
          id \notin Ids(transactions')
    /\ \A id \in (1..sqlite_sequence.budgets) \ Ids(budgets) :
          id \notin Ids(budgets')

\* what a lookup returns is a row of the table it reads
LookupsReadTheTables ==
    /\ op = "get_transaction" => (ret = NoneRow \/ ret \in transactions)
    /\ op = "get_user_transactions" => Range(ret) \subseteq transactions
    /\ op = "get_user_budgets" => Range(ret) \subseteq budgets

\* C7: delete_transaction(id) and delete_budget(id) return False and change
\* nothing when no row has that id; otherwise they return True and remove
\* exactly that row, and no later lookup returns a row of that id.
C7_Delete ==
    /\ [][DeleteTransactionStep /\ DeleteBudgetStep /\ DeletedStaysDeleted]_vars
    /\ []LookupsReadTheTables

\* a delete has returned True and removed its row; another transaction stays
C7_Witness ==
    /\ op = "delete_transaction"
    /\ ret = TRUE
    /\ args.trans_id \notin Ids(transactions)
    /\ transactions # {}

UpdateStep ==
    /\ op' = "update_transaction" =>
          /\ ret' = (\E t \in transactions : t.id = args'.trans_id)
          /\ ~ret' => transactions' = transactions
          /\ budgets' = budgets
    /\ op' = "update_budget" =>
          /\ ret' = (\E b \in budgets : b.id = args'.budget_id)
          /\ ~ret' => budgets' = budgets
          /\ transactions' = transactions

\* C8: update_transaction(id, ...) and update_budget(id, amount) return True
\* iff a row with that id existed at the time of the call; when they return
\* False no row is changed.
C8_UpdateReturnsExistence == [][UpdateStep]_vars

\* budgets are stored, none has the id, and update_budget returned False
C8_Witness ==
    /\ op = "update_budget"
    /\ ret = FALSE
    /\ budgets # {}

UpdateTransactionFrame ==
    op' = "update_transaction" =>
        /\ transactions' =
              {IF t.id = args'.trans_id
               THEN [id |-> t.id, user_id |-> t.user_id, type |-> t.type,
                     amount |-> args'.values.amount,
                     description |-> args'.values.description,
                     category |-> args'.values.category,
                     date |-> args'.values.date]
               ELSE t : t \in transactions}
        /\ budgets' = budgets
        /\ users' = users

\* C9: update_transaction changes only the amount, description, category and
\* date of the row with the given id: its id, type and owning user id stay
\* as they were, and no other row is changed.
C9_UpdateFrame == [][UpdateTransactionFrame]_vars

\* a row was updated to the new values while another row is stored
C9_Witness ==
    /\ op = "update_transaction"
    /\ ret = TRUE
    /\ \E t \in transactions :
          /\ t.id = args.trans_id
          /\ t.amount = args.values.amount
          /\ t.date = args.values.date
    /\ \E t \in transactions :
          /\ t.id # args.trans_id
          /\ t.date # args.values.date

\* the calendar day a stored date names, as validate_date read it
DayNumber(date) ==
    LET d == strptime(date)
    IN (d.year * 12 + (d.month - 1)) * 31 + (d.day - 1)

\* C10 (as stated): get_user_transactions(userId) returns exactly the
\* transactions of userId, and of any two adjacent results the earlier one
\* has the later date, or the same date and the larger id.
C10_NewestFirst ==
    op = "get_user_transactions" =>
        /\ Range(ret) = OwnedBy(transactions, args.user_id)
        /\ Len(ret) = Cardinality(OwnedBy(transactions, args.user_id))
        /\ \A i \in 1..(Len(ret) - 1) :
              \/ DayNumber(ret[i].date) > DayNumber(ret[i + 1].date)
              \/ /\ DayNumber(ret[i].date) = DayNumber(ret[i + 1].date)
                 /\ ret[i].id > ret[i + 1].id

\* every stored date is one validate_date accepts
StoredDatesValid == \A t \in transactions : validate_date(t.date)

\* the order the query does produce: descending in the bytes of the date text
NewestFirstAsText ==
    op = "get_user_transactions" =>
        /\ Range(ret) = OwnedBy(transactions, args.user_id)
        /\ Len(ret) = Cardinality(OwnedBy(transactions, args.user_id))
        /\ \A i \in 1..(Len(ret) - 1) :
              \/ TextLess(ret[i + 1].date, ret[i].date)
              \/ ret[i].date = ret[i + 1].date /\ ret[i].id > ret[i + 1].id

---------------------------------------------------------------------------
(* Properties of the menu operations                                       *)

\* C1: in add_expense, when the budget warning is shown and the answer is
\* anything other than y, the operation is aborted: no transaction row is
\* written and the stored transactions are unchanged.
C1_DeclineAborts ==
    [][(op' = "add_expense" /\ "Expense cancelled." \in Range(ret'))
          => transactions' = transactions]_vars

---------------------------------------------------------------------------
(* Properties of the reports                                               *)

\* the stored date names a day of the given calendar year and month
DatedIn(t, year, month) ==
    LET d == strptime(t.date)
    IN d.ok /\ d.year = year /\ d.month = month

\* the per-category map holds the sum of each category that has a row
SumsPerCategory(map, rows) ==
    /\ DOMAIN map = {t.category : t \in rows}
    /\ \A c \in DOMAIN map : map[c] = SumAmount({t \in rows : t.category = c})

\* the report is the one over the given rows
ReportOver(report, rows) ==
    LET income == {t \in rows : t.type = "income"}
        expenses == {t \in rows : t.type = "expense"}
    IN /\ report.total_income = SumAmount(income)
       /\ report.total_expenses = SumAmount(expenses)
       /\ report.net_savings = report.total_income - report.total_expenses
       /\ SumsPerCategory(report.income_by_category, income)
       /\ SumsPerCategory(report.expenses_by_category, expenses)

\* C11: get_monthly_report(userId, year, month) returns total_income and
\* total_expenses equal to the sums of the user's income and expense
\* transactions dated in that calendar year and month (zero when there are
\* none), per-category maps holding the sum of each (type, category) group
\* that has such a transaction, and net_savings = total_income -
\* total_expenses; other users and other months contribute nothing.
C11_MonthlyReport ==
    op = "get_monthly_report" =>
        ReportOver(ret, {t \in OwnedBy(transactions, args.user_id) :
                           DatedIn(t, args.year, args.month)})

\* every stored date of the user is written as zero-padded YYYY-MM-DD
DatesPadded(user_id) ==
    \A t \in OwnedBy(transactions, user_id) : sqlite_date(t.date).ok

\* the report is the one over the calendar month when the user's stored
\* dates are all zero-padded
MonthlyReportWhenPadded ==
    (op = "get_monthly_report" /\ DatesPadded(args.user_id)) =>
        ReportOver(ret, {t \in OwnedBy(transactions, args.user_id) :
                           DatedIn(t, args.year, args.month)})

\* a report over two rows of one month and category, for a user whose dates
\* are all zero-padded
MonthlyReportWhenPaddedWitness ==
    /\ op = "get_monthly_report"
    /\ DatesPadded(args.user_id)
    /\ ret.total_expenses = 60000
    /\ ret.total_income = 0


\* C12: the monthly_summary returned by get_yearly_report always has exactly
\* 12 entries, one per calendar month 1..12 in ascending order, with income,
\* expenses and savings all zero for the months in which the user has no
\* transaction of that year.
C12_TwelveMonths ==
    op = "get_yearly_report" =>
        /\ Len(ret.monthly_summary) = 12
        /\ \A m \in 1..12 :
              /\ ret.monthly_summary[m].month = m
              /\ ret.monthly_summary[m].savings =
                    ret.monthly_summary[m].income - ret.monthly_summary[m].expenses
              /\ (\A t \in OwnedBy(transactions, args.user_id) :
                     ~DatedIn(t, args.year, m))
                    => /\ ret.monthly_summary[m].income = 0
                       /\ ret.monthly_summary[m].expenses = 0
                       /\ ret.monthly_summary[m].savings = 0

\* a yearly report whose October entry carries an income and an expense of
\* the user and whose September entry is zero
C12_Witness ==
    /\ op = "get_yearly_report"
    /\ ret.monthly_summary[10].income > 0
    /\ ret.monthly_summary[10].expenses > 0
    /\ ret.monthly_summary[9].income = 0


\* the user's expense rows of the category dated within the year-month
SpendingRows(user_id, category, month_year) ==
    LET parts == split(month_year)
    IN {t \in OwnedBy(transactions, user_id) :
           /\ t.type = "expense"
           /\ t.category = category
           /\ DatedIn(t, DecimalValue(parts[1]), DecimalValue(parts[2]))}

\* C13: get_monthly_spending(userId, category, yearMonth) equals the sum of
\* the amounts of the user's expense transactions in that category dated
\* within that year-month, ignoring income transactions, other categories,
\* other months and other users, and is 0 when there is none.
C13_MonthlySpending ==
    op = "get_monthly_spending" =>
        ret = SumAmount(SpendingRows(args.user_id, args.category, args.month_year))

\* the spending is the sum over the calendar month when the user's stored
\* dates are all zero-padded
MonthlySpendingWhenPadded ==
    (op = "get_monthly_spending" /\ DatesPadded(args.user_id)) =>
        ret = SumAmount(SpendingRows(args.user_id, args.category, args.month_year))

\* the spending of a category over one expense row of it, while the user has
\* an income row of the same category and month
MonthlySpendingWhenPaddedWitness ==
    /\ op = "get_monthly_spending"
    /\ DatesPadded(args.user_id)
    /\ ret = 30000
    /\ \E t \in OwnedBy(transactions, args.user_id) :
          t.type = "income" /\ t.category = args.category /\ t.amount = 30000


---------------------------------------------------------------------------
(* Properties of backup and restore                                        *)

\* how many of the transactions carry the record
CountOf(rows, record) == Cardinality({t \in rows : TransactionRecord(t) = record})

\* the two sets of transactions carry the same records, each as often
SameMultiset(before, after) ==
    \A record \in {TransactionRecord(t) : t \in before \cup after} :
        CountOf(before, record) = CountOf(after, record)

RoundTripStep ==
    (op = "get_user_backup_data" /\ op' = "restore_user_data") =>
        /\ ret' = TRUE
        /\ SameMultiset(OwnedBy(transactions, args.user_id),
                        OwnedBy(transactions', args.user_id))
        /\ {BudgetRecord(b) : b \in OwnedBy(budgets, args.user_id)}
              = {BudgetRecord(b) : b \in OwnedBy(budgets', args.user_id)}
        /\ Cardinality(OwnedBy(budgets, args.user_id))
              = Cardinality(OwnedBy(budgets', args.user_id))

\* C14: for any stored state of a user u, restore_user_data(u,
\* get_user_backup_data(u)) returns True and leaves u with the same multiset
\* of transactions (type, amount, description, category, date) and the same
\* set of budgets (category, amount) as before, identifiers possibly
\* differing.
C14_RoundTrip == [][RoundTripStep]_vars

\* a round trip of a user who holds two transactions with the same fields:
\* both are back, under new identifiers
C14_Witness ==
    /\ op = "restore_user_data"
    /\ ret = TRUE
    /\ Len(args.backup_data.transactions) = 2
    /\ args.backup_data.transactions[1] = args.backup_data.transactions[2]
    /\ Ids(OwnedBy(transactions, args.user_id)) = {3, 4}

\* a round trip of a user who holds a transaction and a budget
RoundTripWithBudget ==
    /\ op = "restore_user_data"
    /\ ret = TRUE
    /\ Len(args.backup_data.transactions) = 1
    /\ Len(args.backup_data.budgets) = 1
    /\ Cardinality(OwnedBy(budgets, args.user_id)) = 1


---------------------------------------------------------------------------
(* Properties of the validators                                            *)

\* the number validate_amount parses: the text without '$' and ',', stripped
Parsed(amount_str) == float(strip(SelectSeq(amount_str, NotCurrency)))

\* an amount in cents is at most 999,999,999
WithinLimit(cents) ==
    \/ cents \div 100 < AmountLimit
    \/ cents \div 100 = AmountLimit /\ cents % 100 = 0

\* C15: for every input that validate_amount accepts, the returned value is
\* the parsed amount rounded to 2 decimal places and is strictly greater
\* than 0 and at most 999,999,999; empty, non-numeric, zero and negative
\* inputs are rejected, and '$' and ',' are removed before parsing.
C15_ValidAmount ==
    op = "validate_amount" =>
        LET f == Parsed(args.amount_str)
        IN /\ ret.ok => /\ f.ok
                        /\ ret.amount = round2(f.digits, f.scale)
                        /\ ret.amount > 0
                        /\ WithinLimit(ret.amount)
           /\ (args.amount_str = <<>> \/ ~f.ok \/ f.negative \/ f.digits = 0)
                 => ~ret.ok

\* what does hold: an accepted input parses to a number greater than 0 and
\* within the limit, and the value returned is its rounding, which is not
\* negative; empty, non-numeric, zero and negative inputs are rejected
AcceptedAmountRounded ==
    op = "validate_amount" =>
        LET f == Parsed(args.amount_str)
        IN /\ ret.ok => /\ f.ok /\ ~f.negative /\ f.digits > 0
                        /\ ret.amount = round2(f.digits, f.scale)
                        /\ ret.amount >= 0
                        /\ WithinLimit(ret.amount)
           /\ (args.amount_str = <<>> \/ ~f.ok \/ f.negative \/ f.digits = 0)
                 => ~ret.ok

\* "$1,200.00" is accepted as 1200.00
FormattedAmountAccepted ==
    /\ op = "validate_amount"
    /\ Len(args.amount_str) = 9
    /\ ret = [ok |-> TRUE, amount |-> 120000]


\* the text has the form YYYY-MM-DD: four digits, two digits, two digits
IsoForm(s) ==
    /\ Len(s) = 10
    /\ \A i \in {1, 2, 3, 4, 6, 7, 9, 10} : IsDigit(s[i])
    /\ s[5] = "-"
    /\ s[8] = "-"

\* the text of form YYYY-MM-DD names a day of the calendar
RealDay(s) ==
    LET y == DecimalValue(SubSeq(s, 1, 4))
        m == DecimalValue(SubSeq(s, 6, 7))
        d == DecimalValue(SubSeq(s, 9, 10))
    IN y >= 1 /\ m \in 1..12 /\ d >= 1 /\ d <= DaysInMonth(y, m)

\* C16: validate_date returns True exactly for strings in YYYY-MM-DD form
\* (four-digit year, two-digit month, two-digit day) that denote a real
\* calendar date, and False for every other string.
C16_ValidDate ==
    op = "validate_date" =>
        ret = (IsoForm(args.date_str) /\ RealDay(args.date_str))

\* the year, month and day texts between the dashes name a day of the
\* calendar: a year of four digits, a month and a day of one or two digits,
\* the day possibly with a blank in place of its first digit
LooseRealDay(s) ==
    LET p == split(s)
    IN /\ Len(p) = 3
       /\ Len(p[1]) = 4 /\ AllDigits(p[1])
       /\ Len(p[2]) \in {1, 2} /\ AllDigits(p[2])
       /\ \/ Len(p[3]) \in {1, 2} /\ AllDigits(p[3])
          \/ Len(p[3]) = 2 /\ p[3][1] = " " /\ IsDigit(p[3][2])
       /\ DecimalValue(p[1]) >= 1
       /\ DecimalValue(p[2]) \in 1..12
       /\ FieldValue(p[3]) >= 1
       /\ FieldValue(p[3]) <= DaysInMonth(DecimalValue(p[1]), DecimalValue(p[2]))

\* what does hold: validate_date returns True exactly for the texts whose
\* year, month and day name a day of the calendar, padded or not
ValidDateLoose ==
    op = "validate_date" => ret = LooseRealDay(args.date_str)

\* 2024-02-29 is accepted and 2023-02-29 is not
LeapDayAccepted ==
    /\ op = "validate_date"
    /\ args.date_str = <<"2", "0", "2", "4", "-", "0", "2", "-", "2", "9">>
    /\ ret = TRUE


---------------------------------------------------------------------------
(* Properties of restore_user_data and of the type of a transaction        *)

\* how many records of the sequence equal the record
TimesIn(records, record) ==
    Cardinality({i \in 1..Len(records) : records[i] = record})

\* the rows are the records, each as often as the sequence holds it
RowsAreRecords(rows, records) ==
    /\ \A t \in rows : TransactionRecord(t) \in Range(records)
    /\ \A record \in Range(records) :
           CountOf(rows, record) = TimesIn(records, record)

BudgetsAreRecords(rows, records) ==
    {BudgetRecord(b) : b \in rows} = Range(records)

RestoreSuccessStep ==
    (op' = "restore_user_data" /\ ret' = TRUE) =>
        /\ RowsAreRecords(OwnedBy(transactions', args'.user_id),
                          get(args'.backup_data, "transactions"))
        /\ BudgetsAreRecords(OwnedBy(budgets', args'.user_id),
                             get(args'.backup_data, "budgets"))
        /\ Cardinality(OwnedBy(budgets', args'.user_id)) =
               Len(get(args'.backup_data, "budgets"))
        /\ OwnedBy(transactions, args'.user_id) \cap transactions' = {}
        /\ OwnedBy(budgets, args'.user_id) \cap budgets' = {}
        /\ ("transactions" \notin DOMAIN args'.backup_data =>
                OwnedBy(transactions', args'.user_id) = {})
        /\ ("budgets" \notin DOMAIN args'.backup_data =>
                OwnedBy(budgets', args'.user_id) = {})

\* C17: after a restore_user_data(u, data) call that returns True, u's
\* transactions are exactly the records of data's transactions field and u's
\* budgets exactly the records of data's budgets field: no transaction or
\* budget that u had before the call survives, and a missing field is treated
\* as an empty sequence.
C17_RestoreReplaces == [][RestoreSuccessStep]_vars

\* a restore of a document without a budgets field has returned True: the
\* user's one transaction is the second row ever inserted and the only one
\* stored, the first is gone, and the user has no budget
C17_Witness ==
    /\ op = "restore_user_data"
    /\ ret = TRUE
    /\ "budgets" \notin DOMAIN args.backup_data
    /\ Len(get(args.backup_data, "transactions")) = 1
    /\ \E t \in transactions : t.id = 2 /\ transactions = {t}
    /\ OwnedBy(budgets, args.user_id) = {}

TransactionTypes == {"income", "expense"}

TypesStored == \A t \in transactions : t.type \in TransactionTypes

\* the row add_transaction was called with, under a new id, is in the table
\* and among the rows a later get_user_transactions of the user returns
InsertedAndVisible(a, before, after) ==
    \E t \in after \ before :
        /\ t.id \notin Ids(before)
        /\ t.user_id = a.user_id
        /\ TransactionRecord(t) =
               [type |-> a.trans_type, amount |-> a.values.amount,
                description |-> a.values.description,
                category |-> a.values.category, date |-> a.values.date]
        /\ t \in Range(get_user_transactions(
                          [users |-> {}, transactions |-> after, budgets |-> {},
                           sqlite_sequence |-> [users |-> 0, transactions |-> 0,
                                                budgets |-> 0]],
                          a.user_id))

AddTransactionStep ==
    op' = "add_transaction" =>
        /\ (args'.trans_type \notin TransactionTypes =>
                ret' = FALSE /\ transactions' = transactions)
        /\ (ret' = TRUE =>
                InsertedAndVisible(args', transactions, transactions'))

\* C18: every stored transaction has type income or expense in every
\* reachable state, whatever sequence of add_transaction, update_transaction
\* and restore_user_data calls produced it: add_transaction with any other
\* type returns False and stores nothing, and it returns True only when the
\* row has been committed and is visible to later reads.
C18_TypeEnforced == []TypesStored /\ [][AddTransactionStep]_vars

\* add_transaction with type "transfer" has returned False, with a row of
\* the user in the table
C18_Witness ==
    /\ op = "add_transaction"
    /\ ret = FALSE
    /\ args.trans_type = "transfer"
    /\ OwnedBy(transactions, args.user_id) # {}

\* add_transaction has returned True and the row is the user's second
TransactionAdded ==
    /\ op = "add_transaction"
    /\ ret = TRUE
    /\ Cardinality(OwnedBy(transactions, args.user_id)) = 2


---------------------------------------------------------------------------
(* Properties of the menu loop                                             *)

\* C19: nothing is fatal: after any error in any operation chosen from the
\* authentication menu or the main menu (invalid or out-of-range input,
\* unknown id, storage fault), control returns to the menu loop; the loop
\* ends only through the exit choice of the authentication menu.
C19_NothingFatal ==
    ~AtMenu => (pc = "exited" /\ op = "exit" /\ ~LoggedIn)

\* what does hold: the loop ends through the exit choice of the
\* authentication menu, or by the ValueError of a yearly report asked for a
\* year that is none of the calendar
LoopEndsByExitOrYear ==
    ~AtMenu =>
        \/ pc = "exited" /\ op = "exit" /\ ~LoggedIn
        \/ /\ pc = "raised"
           /\ op = "generate_reports"
           /\ args.choice = "2"
           /\ int(args.text).ok
           /\ int(args.text).value \notin MinYear..MaxYear

\* a yearly report of a year of the calendar has been printed and the loop
\* goes on
YearlyReportPrinted ==
    /\ AtMenu
    /\ op = "generate_reports"
    /\ args.choice = "2"
    /\ args.text = <<"2", "0", "2", "4">>
    /\ ret[1] = "Yearly Report"


---------------------------------------------------------------------------
(* Properties of the validation of typed input in the menu operations      *)

\* what register and add_expense print when they find an input malformed
ValidationMessages ==
    {"Username cannot be empty!",
     "Password must be at least 6 characters long!",
     "Passwords don't match!",
     "Invalid amount", "Description cannot be empty!",
     "Please enter a valid number!", "Invalid category selection!",
     "Invalid date format!"}

TablesUnchanged ==
    /\ users' = users
    /\ transactions' = transactions
    /\ budgets' = budgets

\* the operation of the step found an input malformed
FoundMalformed ==
    \/ /\ op' \in {"register", "add_expense"}
       /\ \E i \in DOMAIN ret' : ret'[i] \in ValidationMessages
    \/ /\ op' \in {"FinanceManager.update_transaction",
                   "FinanceManager.delete_transaction"}
       /\ ret'.rejected # {}

\* the operation of the step called a method of the store
StoreCalled ==
    /\ op' \in {"FinanceManager.update_transaction",
                "FinanceManager.delete_transaction"}
    /\ ret'.calls # <<>>

\* C20: in every application-layer operation (register, add_income,
\* add_expense, update_transaction, delete_transaction, set/update/delete
\* budget), malformed or out-of-range user input (amount, description,
\* category selection, date, id) is detected before any storage call is made
\* and the operation is aborted with users, transactions and budgets
\* unchanged.
C20_MalformedAborts ==
    [][FoundMalformed => (TablesUnchanged /\ ~StoreCalled)]_vars

\* what does hold: a malformed id, and a malformed input of register and of
\* add_expense, abort the operation with the tables unchanged; a malformed
\* amount, category or date of update_transaction leaves that field of the
\* row, and every other row, as it was
MalformedIdAborts ==
    [][/\ (FoundMalformed /\ op' \in {"register", "add_expense"}) => TablesUnchanged
       /\ (op' \in {"FinanceManager.update_transaction",
                    "FinanceManager.delete_transaction"} /\ "id" \in ret'.rejected)
            => (TablesUnchanged /\ ~StoreCalled)
       /\ op' = "FinanceManager.update_transaction" =>
            /\ users' = users /\ budgets' = budgets
            /\ Ids(transactions') = Ids(transactions)
            /\ \A t \in transactions : \A u \in transactions' :
                 t.id = u.id =>
                   /\ "amount" \in ret'.rejected => u.amount = t.amount
                   /\ "category" \in ret'.rejected => u.category = t.category
                   /\ "date" \in ret'.rejected => u.date = t.date]_vars

\* update_transaction has found the amount malformed and has written the
\* row, with the new description
MalformedAmountUpdates ==
    /\ op = "FinanceManager.update_transaction"
    /\ "amount" \in ret.rejected
    /\ ret.calls = <<"get_transaction", "update_transaction">>
    /\ \E t \in transactions : t.description = <<"n", "e", "w">>


---------------------------------------------------------------------------
(* Properties of an interrupted prompt                                     *)

PromptInterrupted ==
    /\ op' \in {"add_income", "update_transaction (interrupted)"}
    /\ ret'.interrupted # {}

\* C21: when the user interrupts a prompt (get_user_input returns the empty
\* string on KeyboardInterrupt or end of input) at any step of any operation,
\* only that operation is aborted and it inserts, updates or deletes no row;
\* the stored state is the same as before the operation started.
C21_InterruptAborts ==
    [][PromptInterrupted =>
         /\ TablesUnchanged
         /\ sqlite_sequence' = sqlite_sequence
         /\ (op' = "update_transaction (interrupted)" =>
                 "update_transaction" \notin Range(ret'.calls))]_vars

\* what does hold: an interrupt at the amount, description or category prompt
\* of add_income, or at the id prompt of update_transaction, aborts the
\* operation with the store as it was
InterruptOfRequiredAborts ==
    [][/\ (op' = "add_income" /\ ret'.interrupted \cap
                                   {"amount", "description", "category"} # {})
            => (TablesUnchanged /\ sqlite_sequence' = sqlite_sequence)
       /\ (op' = "update_transaction (interrupted)" /\ "id" \in ret'.interrupted)
            => (TablesUnchanged /\ ret'.calls = <<>>)]_vars

\* add_income was interrupted at its date prompt and has added the income
InterruptedDateAdds ==
    /\ op = "add_income"
    /\ ret.interrupted = {"date"}
    /\ ret.out = <<"Income added successfully!">>
    /\ transactions # {}


---------------------------------------------------------------------------
(* Properties of the budget warning                                        *)

\* the expenses of the user and category already recorded in the calendar
\* month of the date
RecordedInMonthOf(user_id, category, date_str) ==
    LET d == strptime(date_str)
    IN {t \in OwnedBy(transactions, user_id) :
           /\ t.type = "expense"
           /\ t.category = category
           /\ DatedIn(t, d.year, d.month)}

\* a budget exists for the category and the recorded sum of the month plus
\* the new amount is strictly greater than it
OverBudget(user_id, category, amount, date_str) ==
    \E b \in OwnedBy(budgets, user_id) :
        /\ b.category = category
        /\ SumAmount(RecordedInMonthOf(user_id, category, date_str)) + amount > b.amount

Warned == "WARNING" \in Range(ret.out)

\* C23: add_expense surfaces the budget warning and asks for confirmation
\* exactly when a budget exists for the chosen category and the
\* already-recorded expense sum for that user and category in the month being
\* budgeted (the calendar month of the new expense's date) plus the new
\* amount is strictly greater than the budget; when no budget exists or the
\* total does not exceed it, the expense is recorded without any prompt.
C23_WarnsExactlyWhenOver ==
    op = "_check_budget_warning" =>
        (Warned <=> OverBudget(args.user_id, args.category, args.amount, args.date_str))

\* what does hold: the warning is surfaced exactly when the total exceeds the
\* budget, for a user whose stored dates are all zero-padded
WarnsWhenPadded ==
    (op = "_check_budget_warning" /\ DatesPadded(args.user_id)) =>
        (Warned <=> OverBudget(args.user_id, args.category, args.amount, args.date_str))

\* the recorded expense plus the new amount is exactly the budget, and there
\* was no warning
AtBudgetNoWarning ==
    /\ op = "_check_budget_warning"
    /\ ~Warned
    /\ \E b \in OwnedBy(budgets, args.user_id) :
          /\ b.category = args.category
          /\ RecordedInMonthOf(args.user_id, args.category, args.date_str) # {}
          /\ SumAmount(RecordedInMonthOf(args.user_id, args.category, args.date_str))
               + args.amount = b.amount

\* the recorded expense plus the new amount is over the budget, and the
\* warning was surfaced and declined
OverBudgetWarned ==
    /\ op = "_check_budget_warning"
    /\ Warned
    /\ ret.result = FALSE
    /\ RecordedInMonthOf(args.user_id, args.category, args.date_str) # {}


---------------------------------------------------------------------------
(* Properties of a call during which the store raises                      *)

\* the store raised during the call of the step
Faulted == "fault" \in DOMAIN args' /\ args'.fault

\* the result is the benign default of the method's kind of result
BenignDefault ==
    /\ op' \in {"create_user", "add_transaction", "update_transaction",
                "delete_transaction", "set_budget", "update_budget",
                "delete_budget", "restore_user_data"} => ret' = FALSE
    /\ op' \in {"get_user", "authenticate_user", "get_transaction",
                "get_category_budget"} => ret' = NoneRow
    /\ op' \in {"get_user_transactions", "get_user_budgets"} => ret' = <<>>
    /\ op' = "get_monthly_spending" => ret' = 0
    /\ op' = "get_monthly_report" =>
          /\ ret'.total_income = 0 /\ ret'.total_expenses = 0 /\ ret'.net_savings = 0
          /\ DOMAIN ret'.income_by_category = {}
          /\ DOMAIN ret'.expenses_by_category = {}
    /\ op' = "get_yearly_report" =>
          /\ ret'.total_income = 0 /\ ret'.total_expenses = 0 /\ ret'.net_savings = 0
          /\ ret'.monthly_summary = <<>>
    /\ op' = "get_category_summary" =>
          /\ DOMAIN ret'.income_categories = {}
          /\ DOMAIN ret'.expense_categories = {}
    /\ op' = "get_user_backup_data" =>
          ret'.transactions = <<>> /\ ret'.budgets = <<>>

\* C22: every Storage Layer operation, when the underlying store raises a
\* fault during the call, returns its benign default (False, None, an empty
\* list, zero, or the all-zero/empty report shape), never propagates an
\* exception to its caller, and leaves the stored data as it was before the
\* call.
C22_FaultIsBenign ==
    [][Faulted =>
         /\ BenignDefault
         /\ pc' = "menu"
         /\ TablesUnchanged
         /\ sqlite_sequence' = sqlite_sequence]_vars

\* the store raised during restore_user_data after its statements had
\* written, for a user who has a transaction stored
C22_Witness ==
    /\ "fault" \in DOMAIN args
    /\ args.written
    /\ op = "restore_user_data"
    /\ ret = FALSE
    /\ transactions # {}

\* the store raised during get_monthly_report
ReportFaulted ==
    /\ "fault" \in DOMAIN args
    /\ op = "get_monthly_report"
    /\ ret.net_savings = 0
    /\ transactions # {}


---------------------------------------------------------------------------
(* Properties of the rows a session stores                                 *)

\* the largest amount validate_amount accepts, 999,999,999, in whole units
MaxAmount == 999999999

\* an amount (in cents) greater than 0 and at most 999,999,999
AmountInRange(amount) ==
    /\ amount > 0
    /\ \/ amount \div 100 < MaxAmount
       \/ amount \div 100 = MaxAmount /\ amount % 100 = 0

\* C24: after any sequence of application-layer operations (add_income,
\* add_expense, update_transaction, delete_transaction, restore_data), every
\* stored transaction has an amount strictly greater than 0 and at most
\* 999,999,999, rounded to 2 fractional digits (amounts are whole cents).
C24_AmountsInRange == \A t \in transactions : AmountInRange(t.amount)

\* the categories of a type of transaction
CategoriesOf(trans_type) ==
    IF trans_type = "income" THEN Range(income_categories)
    ELSE Range(expense_categories)

\* C25: after any sequence of application-layer operations (add_income,
\* add_expense, update_transaction, set budget, restore_data), every stored
\* transaction's category is a member of the fixed list for its type and
\* every stored budget's category is a member of the expense list.
C25_CategoriesListed ==
    /\ \A t \in transactions : t.category \in CategoriesOf(t.type)
    /\ \A b \in budgets : b.category \in Range(expense_categories)


---------------------------------------------------------------------------
(* Properties of a session towards the rows of other users                 *)

\* the operations of a session on transactions, budgets and backup files
SessionOps == {"add_income", "add_expense", "update_transaction",
               "delete_transaction", "_set_budget", "_update_budget",
               "_delete_budget", "backup_data", "restore_data"}

\* the rows of users other than the one logged in
OfOthers(rows) == {r \in rows : r.user_id # current_user_id}

\* the document written to a file lists the rows of the user logged in,
\* each once, and no other
FileOfOwnRows(file) ==
    /\ \E ts \in AnyOrder(OwnedBy(transactions, current_user_id)) :
          file.transactions = TransactionRecords(ts)
    /\ \E bs \in AnyOrder(OwnedBy(budgets, current_user_id)) :
          file.budgets = BudgetRecords(bs)

\* an operation of a session has run
SessionStep == LoggedIn /\ op' \in SessionOps /\ "shown" \in DOMAIN ret'

\* C26: any operation performed in a session authenticated as user A (add,
\* update and delete transaction; set, update and delete budget; backup;
\* restore) leaves every other user's transactions and budgets unchanged and
\* never displays them nor writes them to the backup file, even though the
\* storage-level update and delete by id do not check ownership.
C26_SessionIsolated ==
    [][SessionStep =>
         /\ OfOthers(transactions') = OfOthers(transactions)
         /\ OfOthers(budgets') = OfOthers(budgets)
         /\ ret'.shown.transactions \subseteq OwnedBy(transactions, current_user_id)
         /\ ret'.shown.budgets \subseteq OwnedBy(budgets, current_user_id)
         /\ ret'.file # NoFile => FileOfOwnRows(ret'.file)]_vars

\* the user logged in typed the id of another user's transaction at
\* update_transaction or delete_transaction, and was told it was not found
C26_Witness ==
    /\ LoggedIn
    /\ op \in {"update_transaction", "delete_transaction"}
    /\ "shown" \in DOMAIN ret
    /\ ret.out = <<"Transaction not found">>
    /\ OfOthers(transactions) # {}
    /\ OwnedBy(transactions, current_user_id) # {}

\* a restore in a session while another user has rows stored
RestoredBesideOthers ==
    /\ LoggedIn
    /\ op = "restore_data"
    /\ ret.out = <<"Data restored successfully!">>
    /\ OfOthers(transactions) \cup OfOthers(budgets) # {}

\* a budget deleted in a session while another user has a budget stored
BudgetDeletedBesideOthers ==
    /\ LoggedIn
    /\ op = "_delete_budget"
    /\ ret.out = <<"Budget deleted">>
    /\ OfOthers(budgets) # {}


---------------------------------------------------------------------------
(* The session of the menu loop: who is logged in, and which menu is shown *)

\* choice "1" of the authentication menu, with what was typed kept
LoopLogin ==
    /\ AtMenu
    /\ ~LoggedIn
    /\ \E username_in \in UsernameInputs, password \in PasswordInputs :
       \E user \in {login(DB, username_in, password)} :
          /\ op' = "login"
          /\ args' = [username |-> username_in, password |-> password]
          /\ ret' = IF user # NoneRow THEN <<"Welcome back">>
                    ELSE <<"Invalid username or password!">>
          /\ current_user' = IF user # NoneRow THEN strip(username_in) ELSE current_user
          /\ current_user_id' = IF user # NoneRow THEN user.id ELSE current_user_id
          /\ UNCHANGED <<users, transactions, budgets, sqlite_sequence, pc>>

NextLoop ==
    \/ MainRegister
    \/ LoopLogin
    \/ MainLogout
    \/ MainExit
    \/ MainInvalidChoice
    \/ AtMenu /\ SessionAddIncome
    \/ AtMenu /\ SessionSetBudget
    \/ MainViewTransactions
    \/ MainGenerateReports
    \/ AtMenu /\ SessionBackup
    \/ AtMenu /\ SessionRestore

SpecLoop == Init /\ [][NextLoop]_vars

\* the operations of the main menu on transactions, budgets, reports and
\* backup files
DataOps == {"add_income", "_set_budget", "view_transactions", "generate_reports",
            "backup_data", "restore_data"}

\* current_user and current_user_id are None
SessionUnset == current_user = None /\ current_user_id = NoUserId

\* current_user and current_user_id are the name and the id of a stored user
SessionOf(u) == current_user = u.username /\ current_user_id = u.id

\* both fields are unset, or both are set to one stored user
SessionConsistent == SessionUnset \/ \E u \in users : SessionOf(u)

\* the session of the next state is unset
SessionUnsetNext == current_user' = None /\ current_user_id' = NoUserId

\* the step is a login whose name (stripped) and password hash are those of
\* a stored user, and that user is the one the session names afterwards
MatchingLogin ==
    /\ op' = "login"
    /\ SessionUnset
    /\ \E u \in users :
          /\ u.username = strip(args'.username)
          /\ u.password_hash = sha256(args'.password)
          /\ current_user' = u.username
          /\ current_user_id' = u.id

SessionStepOK ==
    /\ (session' # session /\ ~SessionUnsetNext) => MatchingLogin
    /\ (session' # session /\ SessionUnsetNext) => op' = "logout"
    /\ op' = "logout" => SessionUnsetNext
    /\ (op' = "login" /\ ret' # <<"Welcome back">>) => SessionUnsetNext
    /\ op' = "register" => SessionUnsetNext
    /\ op' \in DataOps => ~SessionUnset /\ session' = session

\* C27: in every reachable state of the menu loop current_user is set if and
\* only if current_user_id is set, and when set they are the username and id
\* of one stored user; they become set only by a login whose username and
\* password hash match a stored user, are both cleared by logout, and stay
\* unset after a failed login or after a registration; transaction, budget,
\* report, backup and restore operations run only while a user is logged in.
C27_SessionInvariant == []SessionConsistent /\ [][SessionStepOK]_vars

\* the second registered user is logged in after the first one logged out,
\* and an operation on the store has run in the session
C27_Witness ==
    /\ op \in DataOps
    /\ current_user_id = 2
    /\ \E u \in users : SessionOf(u)
    /\ Cardinality(users) = 2

\* a login with the password of no user has failed while users are stored
LoginRefused ==
    /\ op = "login"
    /\ ret = <<"Invalid username or password!">>
    /\ users # {}
    /\ SessionUnset


---------------------------------------------------------------------------
(* Properties of the sums of the yearly report                             *)

\* Python's sum over a list of doubles: added one by one from 0, in the
\* order of the list
RECURSIVE SumOfList(_, _)
SumOfList(values, acc) ==
    IF values = <<>> THEN acc
    ELSE Only({SumOfList(Tail(values), sum) : sum \in {fadd(acc, Head(values))}})

\* C28: in the dict get_yearly_report returns, total_income equals the sum of
\* the income fields of the 12 monthly entries, total_expenses equals the sum
\* of their expenses fields, each entry's savings equals its income minus its
\* expenses, and net_savings equals total_income minus total_expenses.
C28_YearlyTotalsAddUp ==
    op = "get_yearly_report" =>
        /\ ret.total_income =
              SumOfList([m \in 1..12 |-> ret.monthly_summary[m].income], Zero)
        /\ ret.total_expenses =
              SumOfList([m \in 1..12 |-> ret.monthly_summary[m].expenses], Zero)
        /\ \A m \in 1..12 :
              ret.monthly_summary[m].savings =
                 Minus(ret.monthly_summary[m].income, ret.monthly_summary[m].expenses)
        /\ ret.net_savings = Minus(ret.total_income, ret.total_expenses)


---------------------------------------------------------------------------
(* Properties of what is recorded and what the reports count               *)

\* the store without a row of transactions
Without(db, t) == [db EXCEPT !.transactions = @ \ {t}]

\* the sum a report gives for the type of the row
TotalOfType(report, trans_type) ==
    IF trans_type = "income" THEN report.total_income ELSE report.total_expenses

\* the row is counted in the reports of the calendar year and month of its
\* date: each gives the row's amount more than it gives without the row
CountedIn(t, db) ==
    LET d == strptime(t.date)
    IN /\ TotalOfType(get_monthly_report(db, t.user_id, d.year, d.month), t.type)
            = TotalOfType(get_monthly_report(Without(db, t), t.user_id, d.year, d.month),
                          t.type) + t.amount
       /\ TotalOfType(get_yearly_report(db, t.user_id, d.year), t.type)
            = TotalOfType(get_yearly_report(Without(db, t), t.user_id, d.year),
                          t.type) + t.amount
       /\ t.type = "expense" =>
             get_monthly_spending(db, t.user_id, t.category, month_year_of(d))
               = get_monthly_spending(Without(db, t), t.user_id, t.category,
                                      month_year_of(d)) + t.amount

\* C29: every transaction recorded through add_income or add_expense (its
\* date having been accepted by validate_date) is counted in
\* get_monthly_report for the calendar year and month of its date, in
\* get_yearly_report for its year, and, when it is an expense, in
\* get_monthly_spending for its category and month; no accepted transaction
\* is stored yet missing from every report.
C29_RecordedIsCounted ==
    [][op' \in {"add_income", "add_expense"} =>
          \A t \in transactions' \ transactions : CountedIn(t, DB')]_vars


====
